---- MODULE Spec2Model ----
(***************************************************************************)
(* fortios-xutils: IP/network arithmetic (netutils.py), the query layer    *)
(* (parser.py), the address resolver (firewall.py), the topology           *)
(* synthesizer (network.py) and the graph loader / path finder             *)
(* (finder.py), modelled as state machines over small concrete inputs.     *)
(*                                                                         *)
(* Representation of Python values:                                        *)
(*   - an IPv4 address is a tuple of four octets;                          *)
(*   - an address STRING "a.b.c.d/n" is the record [ip |-> .., len |-> n], *)
(*     a bare "a.b.c.d" has len = NoLen.  Two strings are equal iff the    *)
(*     records are equal, so "10.0.0.1" # "10.0.0.1/32" as in Python;      *)
(*   - an ipaddress.IPv4Network object is a record [ip, len] whose host    *)
(*     bits are zero;                                                      *)
(*   - a host name string is the record [host |-> name];                   *)
(*   - a raised exception is a record [err |-> <exception type>].          *)
(***************************************************************************)
EXTENDS Integers, Sequences, FiniteSets, TLC

VARIABLES pc, cnf, doc, graph, query, paths, nets, dist, call, ret, tbl_df

vars == <<pc, cnf, doc, graph, query, paths, nets, dist, call, ret, tbl_df>>

(***************************************************************************)
(* Bounds of the model.                                                    *)
(***************************************************************************)
MaxNodes == 3       \* nodes in a hand-written graph document
MaxLinks == 2       \* links in a hand-written graph document
MaxIfs   == 2       \* "system interface" edits with an ip
MaxFas   == 2       \* "firewall address" edits

(***************************************************************************)
(* Program constants.                                                      *)
(***************************************************************************)
AddrBits       == 32    \* width of an IPv4 address
NET_MAX_PREFIX == 24
INF            == 999   \* math.inf: larger than every finite distance (<= 64)
InfSentinel    == 64    \* 32 * 2
NoLen          == 0 - 1 \* the string has no "/<prefix>" part

NoType == ""            \* node_type=False: no filter given
None == [none |-> TRUE]
Err(t) == [err |-> t]
IsErr(v) == "err" \in DOMAIN v

(***************************************************************************)
(* Generic helpers.                                                        *)
(***************************************************************************)
Range(s) == {s[i] : i \in DOMAIN s}

Pow2(n) == 2 ^ n

Min(a, b) == IF a <= b THEN a ELSE b

Abs(n) == IF n < 0 THEN 0 - n ELSE n

RECURSIVE SelectSeqIdx(_, _, _)
\* the indices i >= k of s, ascending, for which keep[i] holds
SelectSeqIdx(n, keep, k) ==
    IF k > n THEN <<>>
    ELSE (IF keep[k] THEN <<k>> ELSE <<>>) \o SelectSeqIdx(n, keep, k + 1)

\* Python's sorted(s, key=..., reverse=rev) as the sequence of the indices of s
\* in sorted order; the sort is stable also with reverse=True
SortedIdx(keys, rev) ==
    LET key == keys \o <<>>
        n == Len(key)
        first(j, i) == \/ (IF rev THEN key[j] > key[i] ELSE key[j] < key[i])
                       \/ (key[j] = key[i] /\ j < i)
        rank(i) == 1 + Cardinality({j \in 1..n : first(j, i)})
    IN [p \in 1..n |-> CHOOSE i \in 1..n : rank(i) = p]

(***************************************************************************)
(* ipaddress: addresses, networks, interfaces.                             *)
(***************************************************************************)
Pfx(ip, len) == [ip |-> ip, len |-> len]

\* number of leading bits of octet i (1..4) covered by a prefix length p
OctetBits(p, i) ==
    IF p >= 8 * i THEN 8
    ELSE IF p <= 8 * (i - 1) THEN 0
    ELSE p - 8 * (i - 1)

MaskOctet(o, k) == (o \div Pow2(8 - k)) * Pow2(8 - k)

\* ip & netmask(p)
NetworkAddress(ip, p) == [i \in 1..4 |-> MaskOctet(ip[i], OctetBits(p, i))]

\* prefix length carried by the string, /32 when there is none
StrLen(s) == IF s.len = NoLen THEN AddrBits ELSE s.len

\* ipaddress.ip_network(s), strict: ValueError when host bits are set
IpNetwork(s) ==
    IF NetworkAddress(s.ip, StrLen(s)) = s.ip
    THEN Pfx(s.ip, StrLen(s))
    ELSE Err("ValueError")

\* ipaddress.ip_interface(s).network
InterfaceNetwork(s) == Pfx(NetworkAddress(s.ip, StrLen(s)), StrLen(s))

\* str(ipaddress.ip_interface(s)): always carries a prefix
InterfaceStr(s) == Pfx(s.ip, StrLen(s))

\* ipaddress.ip_interface(s) in net: the address of s lies in net
AddrInNetwork(s, net) == NetworkAddress(s.ip, net.len) = net.ip

\* IPv4Network.supernet(new_prefix=p); ValueError when p > prefixlen
Supernet(net, p) ==
    IF p > net.len THEN Err("ValueError")
    ELSE Pfx(NetworkAddress(net.ip, p), p)


(***************************************************************************)
(* netutils.py                                                             *)
(***************************************************************************)
\* normalize_ip(ip_s): append "/32" unless a prefix is given
normalize_ip(ip_s) == IF ip_s.len = NoLen THEN Pfx(ip_s.ip, AddrBits) ELSE ip_s

\* is_network_address(addr): the text after "/" is not "32"
is_network_address(addr) ==
    IF addr.len # NoLen THEN addr.len # AddrBits
    ELSE FALSE  \* ip_network("a.b.c.d").num_addresses > 1 never holds

\* subnet_to_ip(addr, netmask) for a dotted-quad addr and the netmask of
\* `masklen` leading ones
subnet_to_ip(ip, masklen) ==
    IF masklen = AddrBits THEN InterfaceStr(Pfx(ip, NoLen))
    ELSE IF IsErr(IpNetwork(Pfx(ip, masklen)))
         THEN InterfaceStr(Pfx(ip, NoLen))
         ELSE IpNetwork(Pfx(ip, masklen))

\* to_network(addr_s) that drops the host bits instead of the prefix
ToNetworkLoose(addr_s) == InterfaceNetwork(addr_s)

\* to_network(addr_s): a host /32 when addr_s has host bits set
to_network(addr_s) ==
    IF IsErr(IpNetwork(addr_s))
    THEN IpNetwork(normalize_ip(Pfx(addr_s.ip, NoLen)))
    ELSE IpNetwork(addr_s)

\* list_addrs_contain_the_ip_itr(ip_s, addrs): the indices of the yielded addrs
list_addrs_contain_the_ip(ip_s, addrs) ==
    LET ipa == normalize_ip(ip_s)
        hit == [i \in 1..Len(addrs) |->
                   \/ ipa = addrs[i]
                   \/ AddrInNetwork(ipa, to_network(addrs[i]))]
    IN SelectSeqIdx(Len(addrs), hit, 1)

is_ip_in_addrs(ip_s, addrs) == list_addrs_contain_the_ip(ip_s, addrs) # <<>>

\* _is_subnet_of(net1, net2)
IsSubnetOf(net1, net2) ==
    /\ net2.len <= net1.len
    /\ NetworkAddress(net1.ip, net2.len) = net2.ip

RECURSIVE SupernetSearch(_, _)
\* the loop of supernet_of_networks: prefix = p, p - 1, .. 1
SupernetSearch(sorted, p) ==
    IF p < 1 THEN None
    ELSE LET cnet == Supernet(sorted[1], p)
         IN IF \A i \in 2..Len(sorted) : IsSubnetOf(sorted[i], cnet)
            THEN cnet
            ELSE SupernetSearch(sorted, p - 1)

\* supernet_of_networks() that does not cap the search at max_prefix
SupernetOfNetworksUncapped(net_addrs, max_prefix) ==
    LET ns == [i \in 1..Len(net_addrs) |-> to_network(net_addrs[i])] \o <<>>
        order == SortedIdx([i \in 1..Len(ns) |-> ns[i].len], FALSE)
        sorted == [i \in 1..Len(ns) |-> ns[order[i]]] \o <<>>
    IN IF Len(ns) = 0 THEN None
       ELSE SupernetSearch(sorted, sorted[1].len)

\* supernet_of_networks(*net_addrs, max_prefix=max_prefix)
supernet_of_networks(net_addrs, max_prefix) ==
    LET ns == [i \in 1..Len(net_addrs) |-> to_network(net_addrs[i])] \o <<>>
        order == SortedIdx([i \in 1..Len(ns) |-> ns[i].len], FALSE)
        sorted == [i \in 1..Len(ns) |-> ns[order[i]]] \o <<>>
    IN IF Len(ns) = 0 THEN None
       ELSE SupernetSearch(sorted, Min(sorted[1].len, max_prefix))

\* distance() with the operands of its second host test exchanged
HostInOtherSwapped(net2, no2, no1) ==
    no1.len = AddrBits /\ AddrInNetwork(net2, no1)

\* the second host test of distance(): net2 is a host address inside net1
HostInOther(net2, no2, no1) == no2.len = AddrBits /\ AddrInNetwork(net2, no1)

\* distance(net1, net2) raises ValueError: ip_network() of a string with host
\* bits set
distance_raises(net1, net2) ==
    net1 # net2 /\ (IsErr(IpNetwork(net1)) \/ IsErr(IpNetwork(net2)))

\* distance() whose subset rule returns the signed difference of the prefix
\* lengths
DistanceSignedDifference(net1, net2) ==
    IF net1 = net2 THEN 0
    ELSE LET no1 == IpNetwork(net1)
             no2 == IpNetwork(net2)
         IN IF no1.len = AddrBits /\ AddrInNetwork(net1, no2) THEN 1
            ELSE IF HostInOther(net2, no2, no1) THEN 1
            ELSE IF IsSubnetOf(no1, no2) \/ IsSubnetOf(no2, no1)
                 THEN no1.len - no2.len
            ELSE LET snet == supernet_of_networks(<<no1, no2>>, AddrBits)
                 IN IF snet = None THEN INF
                    ELSE no1.len + no2.len - 2 * snet.len

\* distance(net1, net2, base=1) where it does not raise; INF is math.inf
distance(net1, net2) ==
    IF net1 = net2 THEN 0
    ELSE LET no1 == IpNetwork(net1)
             no2 == IpNetwork(net2)
         IN IF no1.len = AddrBits /\ AddrInNetwork(net1, no2) THEN 1
            ELSE IF HostInOther(net2, no2, no1) THEN 1
            ELSE IF IsSubnetOf(no1, no2) \/ IsSubnetOf(no2, no1)
                 THEN Abs(no1.len - no2.len)
            ELSE LET snet == supernet_of_networks(<<no1, no2>>, AddrBits)
                 IN IF snet = None THEN INF
                    ELSE no1.len + no2.len - 2 * snet.len

\* what a call distance(net1, net2) produces
DistanceOutcome(net1, net2) ==
    IF distance_raises(net1, net2) THEN Err("ValueError")
    ELSE [val |-> distance(net1, net2)]

\* find_nearest_network() that takes the last of the nearest candidates
FindNearestLast(ipa, ns) ==
    ns[SortedIdx([i \in 1..Len(ns) |-> distance(ipa, ns[i])], TRUE)[Len(ns)]]

\* find_nearest_network(ipa, nets): sorted(nets, key=distance(ipa, .))[0]
find_nearest_network(ipa, ns) ==
    ns[SortedIdx([i \in 1..Len(ns) |-> distance(ipa, ns[i])], FALSE)[1]]


(***************************************************************************)
(* parser.py: queries on a single-domain config tree.  A tree is           *)
(* [configs |-> <<block, ..>>], a block [config |-> name, ..] with an      *)
(* optional hostname and optional edits.                                   *)
(***************************************************************************)
RECURSIVE Flatten(_)
Flatten(ss) == IF ss = <<>> THEN <<>> ELSE Head(ss) \o Flatten(Tail(ss))

\* <<f(s[i]) : i in 1..Len(s), keep(s[i])>> in order
SeqFilterMap(s, keep(_), f(_)) ==
    LET idx == SelectSeqIdx(Len(s), [i \in 1..Len(s) |-> keep(s[i])], 1)
    IN [k \in 1..Len(idx) |-> f(s[idx[k]])] \o <<>>

Ident(x) == x

\* str.lower() on the host names of the model
Lower(name) == IF name = "FW1" THEN "fw1" ELSE name

\* parser.validate(cnf) raises
parser_validate_raises(c) == "configs" \notin DOMAIN c

\* has_vdom(cnf)
has_vdom(c) == \E i \in 1..Len(c.configs) : c.configs[i].config = "vdom"

\* jmespath "configs[?config=='<name>']"
ConfigsNamed(c, name) ==
    LET IsNamed(b) == b.config = name
    IN SeqFilterMap(c.configs, IsNamed, Ident)

\* jmespath "configs[?config=='<name>'].edits[]"
EditsOf(c, name) ==
    LET HasEdits(b) == "edits" \in DOMAIN b
        Edits(b) == b.edits
    IN Flatten(SeqFilterMap(ConfigsNamed(c, name), HasEdits, Edits))

\* hostname_from_configs(cnf): a host name, None, or ValueError
hostname_from_configs(c) ==
    LET sgcnf == ConfigsNamed(c, "system global")
    IN IF sgcnf = <<>> THEN Err("ValueError")
       ELSE IF "hostname" \in DOMAIN sgcnf[1] /\ sgcnf[1].hostname # ""
            THEN [host |-> Lower(sgcnf[1].hostname)]
            ELSE None

(***************************************************************************)
(* network.py                                                              *)
(***************************************************************************)
\* add_node_info(dict(id=.., name=.., type=.., addrs=..)), derived display
\* attributes left out
MakeNode(id, type, addrs) ==
    [id |-> id, name |-> id, type |-> type, addrs |-> addrs]

\* make_net_node(net)
make_net_node(net) == MakeNode(net, "network", <<net>>)

\* make_edge(nodes, distance): the id "<source>_<target>" is the pair
make_edge(source, target, d) ==
    [type |-> "edge", distance |-> d, id |-> [edge |-> <<source, target>>],
     source |-> source, target |-> target]

\* list_interface_addrs(cnf): the ip (address, netmask) of every interface
\* edit that has one, as ip_interface objects
list_interface_addrs(c) ==
    LET HasIp(e) == "ip" \in DOMAIN e
        Ip(e) == Pfx(e.ip[1], e.ip[2])
    IN SeqFilterMap(EditsOf(c, "system interface"), HasIp, Ip)

\* the low 24 bits of an address as a number
Low24(ip) == ip[2] * 65536 + ip[3] * 256 + ip[4]

\* iprange_to_ipsets(start_ip, end_ip) raises: different first octets
iprange_raises(start, end) == start[1] # end[1]

\* netaddr.iter_iprange(start_ip, end_ip) without its last address
IprangeHalfOpen(start, end, prefix) ==
    [k \in 1..(Low24(end) - Low24(start)) |->
        LET n == Low24(start) + k - 1
        IN Pfx(<<start[1], n \div 65536, (n \div 256) % 256, n % 256>>,
               prefix)] \o <<>>

\* iprange_to_ipsets(start_ip, end_ip, prefix) where it does not raise:
\* "<ip>/<prefix>" for ip in netaddr.iter_iprange(start_ip, end_ip)
iprange_to_ipsets(start, end, prefix) ==
    [k \in 1..(Low24(end) - Low24(start) + 1) |->
        LET n == Low24(start) + k - 1
        IN Pfx(<<start[1], n \div 65536, (n \div 256) % 256, n % 256>>,
               prefix)] \o <<>>

\* list_firewall_addrs(cnf) raises
list_firewall_addrs_raises(c) ==
    LET qres == EditsOf(c, "firewall address")
    IN \E i \in 1..Len(qres) :
          /\ "type" \in DOMAIN qres[i] /\ qres[i].type = "iprange"
          /\ iprange_raises(qres[i].start, qres[i].end)

\* list_firewall_addrs(cnf): set(sns + irs); list() of it has any order
list_firewall_addrs(c) ==
    LET qres == EditsOf(c, "firewall address")
        sns == { subnet_to_ip(qres[i].subnet[1], qres[i].subnet[2]) :
                   i \in {j \in 1..Len(qres) : "subnet" \in DOMAIN qres[j]} }
        irs == UNION { Range(iprange_to_ipsets(qres[i].start, qres[i].end,
                                               AddrBits)) :
                   i \in {j \in 1..Len(qres) :
                            /\ "type" \in DOMAIN qres[j]
                            /\ qres[j].type = "iprange"} }
    IN sns \cup irs

\* _node_and_edges_from_fa_networks_itr without the node it yields
FaNetworksWithoutNode(inets, ns) ==
    LET inet == [k \in 1..Len(ns) |-> find_nearest_network(ns[k], inets)]
                    \o <<>>
        placed == SelectSeqIdx(Len(ns), [k \in 1..Len(ns) |-> inet[k] # ns[k]], 1)
        Items(k) ==
            LET d == distance(ns[k], inet[k])
            IN <<make_edge(inet[k], ns[k],
                           IF d = INF THEN InfSentinel ELSE d)>>
    IN Flatten([j \in 1..Len(placed) |-> Items(placed[j])] \o <<>>)

\* _node_and_edges_from_fa_networks_itr(inets, nets): node and edge per net
\* that is not its own nearest interface network
node_and_edges_from_fa_networks(inets, ns) ==
    LET Items(net, inet, d) ==
            IF inet = net THEN <<>>
            ELSE << make_net_node(net),
                    make_edge(inet, net,
                              IF d = INF THEN InfSentinel ELSE d) >>
        Placed(net, inet) ==
            CHOOSE x \in { Items(net, inet, d) :
                           d \in {distance(net, inet)} } : TRUE
        Yielded(net) ==
            CHOOSE x \in { Placed(net, inet) :
                           inet \in {find_nearest_network(net, inets)} } : TRUE
    IN Flatten([k \in 1..Len(ns) |-> Yielded(ns[k])] \o <<>>)

\* the first cnets of node_and_edges_from_config_file_itr, fas in list order
Step3Nets(fas, inets) ==
    LET Keep(a) == /\ is_network_address(a)
                   /\ a \notin Range(inets)
                   /\ a # Pfx(<<0, 0, 0, 0>>, AddrBits)
    IN SeqFilterMap(fas, Keep, Ident)

\* the addresses summarized by the second cnets
Step4Addrs(fas, inets) ==
    LET cnets == Step3Nets(fas, inets)
        seen == Range(cnets) \cup Range(inets)
    IN { a \in Range(fas) : a \notin seen /\ ~is_ip_in_addrs(a, cnets) }

\* the second cnets raises: supernet() to a longer prefix
Step4Raises(fas, inets, prefix) ==
    \E a \in Step4Addrs(fas, inets) : IsErr(Supernet(IpNetwork(a), prefix))

\* the second cnets: a set, iterated in any order
Step4Nets(fas, inets, prefix) ==
    { Supernet(IpNetwork(a), prefix) : a \in Step4Addrs(fas, inets) }

\* node_and_edges_from_config_file_itr without the test of the host name
ConfigFileRaisesNoHostTest(c) ==
    \/ parser_validate_raises(c)
    \/ IsErr(hostname_from_configs(c))
    \/ list_interface_addrs(c) = <<>>

\* node_and_edges_from_config_file_itr raises before anything is yielded
config_file_raises(c) ==
    \/ parser_validate_raises(c)
    \/ IsErr(hostname_from_configs(c))
    \/ hostname_from_configs(c) = None
    \/ list_interface_addrs(c) = <<>>

\* node_and_edges_from_config_file_itr whose interface edges have distance 0
NodeAndEdgesIfDistanceZero(c, fas, snets) ==
    LET hostname == hostname_from_configs(c)
        ifas == list_interface_addrs(c)
        host == MakeNode(hostname, "firewall",
                         [i \in 1..Len(ifas) |-> InterfaceStr(ifas[i])] \o <<>>)
        inets == [i \in 1..Len(ifas) |-> InterfaceNetwork(ifas[i])] \o <<>>
        ifitems == [i \in 1..Len(ifas) |->
                       <<make_net_node(inets[i]),
                         make_edge(hostname, inets[i], 0)>>] \o <<>>
    IN <<host>> \o Flatten(ifitems)
          \o node_and_edges_from_fa_networks(inets, Step3Nets(fas, inets))
          \o node_and_edges_from_fa_networks(inets, snets)

\* list(node_and_edges_from_config_file_itr(..)) where nothing raises, for
\* the list order fas of the firewall addresses and the iteration order
\* snets of the summarized set
node_and_edges_from_config_file(c, fas, snets) ==
    LET hostname == hostname_from_configs(c)
        ifas == list_interface_addrs(c)
        host == MakeNode(hostname, "firewall",
                         [i \in 1..Len(ifas) |-> InterfaceStr(ifas[i])] \o <<>>)
        inets == [i \in 1..Len(ifas) |-> InterfaceNetwork(ifas[i])] \o <<>>
        ifitems == [i \in 1..Len(ifas) |->
                       <<make_net_node(inets[i]),
                         make_edge(hostname, inets[i], 1)>>] \o <<>>
    IN <<host>> \o Flatten(ifitems)
          \o node_and_edges_from_fa_networks(inets, Step3Nets(fas, inets))
          \o node_and_edges_from_fa_networks(inets, snets)

IsEdge(x) == x.type = "edge"
IsNode(x) == x.type # "edge"

\* collect_networks_from_config_file(filepath, prefix): the document, without
\* its metadata
collect_networks_from_config_file(c, fas, snets) ==
    CHOOSE d \in
      { [shape |-> "mapping",
         nodes |-> SeqFilterMap(g, IsNode, Ident),
         links |-> SeqFilterMap(g, IsEdge, Ident)] :
        g \in {node_and_edges_from_config_file(c, fas, snets)} } : TRUE

(***************************************************************************)
(* finder.py.  A document is a record with a shape: "mapping" documents    *)
(* carry the sequences nodes and links, the other shapes are the inputs    *)
(* validate() rejects.  A graph is [nodes |-> <<[id, attrs]..>>,           *)
(* edges |-> <<[u, v, attrs]..>>] in insertion order; attrs = None is the  *)
(* empty attribute dict of a node that only an edge created.               *)
(***************************************************************************)
\* validate(cnf) that also rejects empty nodes or links
ValidateNonEmpty(d) ==
    IF d.shape \in {"null", "empty"} THEN Err("ValueError")
    ELSE IF d.shape = "list" THEN Err("TypeError")
    ELSE IF d.shape # "mapping" THEN Err("ValueError")
    ELSE IF d.nodes = <<>> \/ d.links = <<>> THEN Err("ValueError")
    ELSE None

\* validate(cnf): the exception raised, or None
validate(d) ==
    IF d.shape \in {"null", "empty"} THEN Err("ValueError")
    ELSE IF d.shape = "list" THEN Err("TypeError")
    ELSE IF d.shape \in {"no_keys", "no_nodes", "no_links"}
         THEN Err("ValueError")
    ELSE IF d.shape \in {"scalar_nodes", "scalar_links"}
         THEN Err("ValueError")
    ELSE None

HasNode(g, id) == \E i \in 1..Len(g.nodes) : g.nodes[i].id = id

\* Graph.add_node(id, **attrs): a known node keeps its place, attrs updated
AddNode(g, id, attrs) ==
    IF HasNode(g, id)
    THEN [g EXCEPT !.nodes =
            [i \in 1..Len(g.nodes) |->
                IF g.nodes[i].id = id /\ attrs # None
                THEN [id |-> id, attrs |-> attrs]
                ELSE g.nodes[i]]]
    ELSE [g EXCEPT !.nodes = Append(g.nodes, [id |-> id, attrs |-> attrs])]

SameEdge(e, u, v) == (e.u = u /\ e.v = v) \/ (e.u = v /\ e.v = u)

\* Graph.add_edge(u, v, **attrs) of an undirected graph
AddEdge(g, u, v, attrs) ==
    LET g2 == AddNode(AddNode(g, u, None), v, None)
    IN IF \E i \in 1..Len(g2.edges) : SameEdge(g2.edges[i], u, v)
       THEN [g2 EXCEPT !.edges =
               [i \in 1..Len(g2.edges) |->
                   IF SameEdge(g2.edges[i], u, v)
                   THEN [g2.edges[i] EXCEPT !.attrs = attrs]
                   ELSE g2.edges[i]]]
       ELSE [g2 EXCEPT !.edges =
               Append(g2.edges, [u |-> u, v |-> v, attrs |-> attrs])]

RECURSIVE AddNodesFrom(_, _)
AddNodesFrom(g, ns) ==
    IF ns = <<>> THEN g
    ELSE AddNodesFrom(AddNode(g, Head(ns).id, Head(ns)), Tail(ns))

RECURSIVE AddEdgesFrom(_, _)
AddEdgesFrom(g, ls) ==
    IF ls = <<>> THEN g
    ELSE AddEdgesFrom(AddEdge(g, Head(ls).source, Head(ls).target, Head(ls)),
                      Tail(ls))

\* load(filepath) of a file holding the document d: the graph or the exception
load(d) ==
    IF validate(d) # None THEN validate(d)
    ELSE AddEdgesFrom(AddNodesFrom([nodes |-> <<>>, edges |-> <<>>], d.nodes),
                      d.links)

\* find_net_nodes_by_ip(graph, ipa): enclosing nodes, longest prefix first
find_net_nodes_by_ip(g, ipa) ==
    LET Encloses(n) == /\ n.attrs # None
                       /\ is_ip_in_addrs(ipa, n.attrs.addrs)
        Attrs(n) == n.attrs
        found == SeqFilterMap(g.nodes, Encloses, Attrs)
        key == [i \in 1..Len(found) |-> to_network(found[i].addrs[1]).len]
        order == SortedIdx(key, TRUE)
    IN [i \in 1..Len(found) |-> found[order[i]]]

\* find_a_net_node_by_ip(graph, ipa)
find_a_net_node_by_ip(g, ipa) ==
    LET ns == find_net_nodes_by_ip(g, ipa)
    IN IF ns # <<>> THEN ns[1] ELSE None

Neighbours(g, u) ==
    { g.edges[i].v : i \in {j \in 1..Len(g.edges) : g.edges[j].u = u} }
        \cup { g.edges[i].u : i \in {j \in 1..Len(g.edges) : g.edges[j].v = u} }

RECURSIVE ShortestSearch(_, _, _, _)
\* breadth-first: ps are the simple paths of k edges from the source
ShortestSearch(g, ps, target, k) ==
    IF ps = {} \/ k > Len(g.nodes) THEN {}
    ELSE LET hits == {p \in ps : p[Len(p)] = target}
         IN IF hits # {} THEN hits
            ELSE ShortestSearch(g,
                    UNION { { Append(p, v) :
                                v \in Neighbours(g, p[Len(p)]) \ Range(p) } :
                            p \in ps },
                    target, k + 1)

\* networkx.all_shortest_paths(graph, source, target), unweighted: the set of
\* the paths as id sequences; empty stands for NetworkXNoPath
all_shortest_paths(g, source, target) ==
    ShortestSearch(g, {<<source>>}, target, 0)

\* select_unique_paths_itr(paths)
RECURSIVE select_unique_paths(_, _)
select_unique_paths(ps, seen) ==
    IF ps = <<>> THEN <<>>
    ELSE LET ids == [i \in 1..Len(Head(ps)) |-> Head(ps)[i].id]
         IN IF ids \in seen THEN select_unique_paths(Tail(ps), seen)
            ELSE <<Head(ps)>> \o select_unique_paths(Tail(ps), seen \cup {ids})

\* [n for n in graph_nodes_itr(graph) if n["id"] in ns]
NodesOnPath(g, ns) ==
    LET OnPath(n) == n.attrs.id \in Range(ns)
        Attrs(n) == n.attrs
    IN SeqFilterMap(g.nodes, OnPath, Attrs)

\* find_paths_itr gives up only when both end points are unresolved
BothUnresolved(src_net, dst_net) == src_net = None /\ dst_net = None

\* "if not src_net or not dst_net: return" of find_paths_itr
EitherUnresolved(src_net, dst_net) == src_net = None \/ dst_net = None

\* the test of find_paths_itr that lets a single-node path through
SameNodePasses(node, node_type) ==
    \/ node_type = NoType
    \/ (node_type # "any" /\ node.type = node_type)

\* find_paths(graph, src, dst, node_type) for the order nss in which
\* all_shortest_paths yields its paths: [val |-> paths] or the exception
find_paths(g, src, dst, node_type, nss) ==
    LET src_net == find_a_net_node_by_ip(g, src)
        dst_net == find_a_net_node_by_ip(g, dst)
    IN IF EitherUnresolved(src_net, dst_net) THEN [val |-> <<>>]
       ELSE IF src_net = dst_net
       THEN IF SameNodePasses(src_net, node_type)
            THEN [val |-> << <<src_net>> >>]
            ELSE [val |-> <<>>]
       ELSE IF nss = <<>> THEN Err("NetworkXNoPath")
       ELSE IF \E i \in 1..Len(g.nodes) : g.nodes[i].attrs = None
            THEN Err("KeyError")
       ELSE LET res == [i \in 1..Len(nss) |-> NodesOnPath(g, nss[i])]
                OfType(n) == n.type = node_type
            IN IF node_type # NoType /\ node_type # "any"
               THEN [val |-> select_unique_paths(
                        [i \in 1..Len(res) |->
                            SeqFilterMap(res[i], OfType, Ident)], {})]
               ELSE [val |-> res]

(***************************************************************************)
(* Inputs: concrete addresses and address strings.                         *)
(***************************************************************************)
IP_ANY    == <<0, 0, 0, 0>>
IP_LO     == <<127, 0, 0, 1>>
IP_10     == <<10, 0, 0, 0>>
IP_10_IF  == <<10, 0, 0, 1>>
IP_10_1   == <<10, 1, 0, 0>>
IP_192    == <<192, 168, 0, 0>>
IP_N1     == <<192, 168, 1, 0>>
IP_H1     == <<192, 168, 1, 10>>
IP_H1B    == <<192, 168, 1, 11>>
IP_N2     == <<192, 168, 2, 0>>
IP_H2     == <<192, 168, 2, 5>>

\* the arguments given to distance()
DistInputs ==
    { Pfx(IP_H1, NoLen), Pfx(IP_H1, 32), Pfx(IP_H2, 32), Pfx(IP_ANY, 32),
      Pfx(IP_H1, 31), Pfx(IP_N1, 24), Pfx(IP_N2, 24), Pfx(IP_192, 16),
      Pfx(IP_10, 8), Pfx(IP_10_1, 16), Pfx(IP_ANY, 0), Pfx(IP_ANY, 1),
      Pfx(IP_H1, 24) }

RECURSIVE Perms(_)
\* the orders in which a set can be iterated
Perms(S) ==
    IF S = {} THEN {<<>>}
    ELSE UNION { { <<x>> \o p : p \in Perms(S \ {x}) } : x \in S }

\* the sequences without repetition of at most n elements of S
InjSeqs(S, n) ==
    UNION { { q \in [1..k -> S] :
                \A i \in 1..k, j \in 1..k : i # j => q[i] # q[j] } :
            k \in 0..n }

\* the subsequences of at most n elements of the sequence s
SubSeqs(s, n) ==
    { [k \in 1..Len(SelectSeqIdx(Len(s), [i \in 1..Len(s) |-> i \in I], 1)) |->
          s[SelectSeqIdx(Len(s), [i \in 1..Len(s) |-> i \in I], 1)[k]]] :
        I \in {J \in SUBSET (1..Len(s)) : Cardinality(J) <= n} }

\* config trees: system global, system interface, firewall address
SysGlobals ==
    { <<>>,
      <<[config |-> "system global"]>>,
      <<[config |-> "system global", hostname |-> "FW1"]>> }

IfEdits ==
    { [edit |-> "port1", ip |-> <<IP_H1, 24>>],
      [edit |-> "port2", ip |-> <<IP_H1B, 24>>],
      [edit |-> "port3", ip |-> <<IP_10_IF, 8>>],
      [edit |-> "port4"] }

FaEdits ==
    << [edit |-> "net1", subnet |-> <<IP_N1, 24>>],
       [edit |-> "site", subnet |-> <<IP_192, 16>>],
       [edit |-> "host2", subnet |-> <<IP_H2, 32>>],
       [edit |-> "all", subnet |-> <<IP_ANY, 32>>],
       [edit |-> "lab", subnet |-> <<IP_10_1, 16>>],
       [edit |-> "pool", type |-> "iprange", start |-> IP_H1, end |-> IP_H1B],
       [edit |-> "www", type |-> "fqdn"] >>

ConfigTrees ==
    { [shape |-> "empty"] } \cup
    { [configs |-> sg \o <<[config |-> "system interface", edits |-> ifs],
                           [config |-> "firewall address", edits |-> fas]>>] :
        sg \in SysGlobals,
        ifs \in InjSeqs(IfEdits, MaxIfs),
        fas \in SubSeqs(FaEdits, MaxFas) }

\* graph documents read from a file
FW1   == MakeNode([host |-> "fw1"], "firewall", <<Pfx(IP_H1, 24)>>)
NET1  == make_net_node(Pfx(IP_N1, 24))
NET2  == make_net_node(Pfx(IP_N2, 24))
NET16 == make_net_node(Pfx(IP_192, 16))

NodeCatalogue == {FW1, NET1, NET2, NET16}

LinkCatalogue ==
    << make_edge(FW1.id, NET1.id, 1),
       make_edge(FW1.id, NET2.id, 1),
       make_edge(NET1.id, NET16.id, 8),
       make_edge(NET16.id, NET2.id, 8),
       make_edge(NET1.id, NET2.id, 4),
       make_edge(NET1.id, Pfx(IP_10, 8), InfSentinel) >>

BadDocs ==
    { [shape |-> sh] : sh \in {"null", "empty", "list", "no_keys", "no_nodes",
                               "no_links", "scalar_nodes", "scalar_links"} }

GraphDocs ==
    BadDocs \cup
    { [shape |-> "mapping", nodes |-> ns, links |-> ls] :
        ns \in InjSeqs(NodeCatalogue, MaxNodes),
        ls \in SubSeqs(LinkCatalogue, MaxLinks) }

QueryIps == { Pfx(IP_H1, NoLen), Pfx(IP_H1B, NoLen), Pfx(IP_H2, NoLen),
              Pfx(IP_LO, NoLen) }

NodeTypes == { NoType, "any", "network" }

(***************************************************************************)
(* State machine of the arithmetic library: one call of distance().        *)
(***************************************************************************)
Idle ==
    /\ pc = "idle"
    /\ cnf = None /\ doc = None /\ graph = None
    /\ query = None /\ paths = None
    /\ nets = <<>> /\ dist = None
    /\ call = None /\ ret = None
    /\ tbl_df = None

Distance ==
    /\ pc = "idle"
    /\ \E a \in DistInputs, b \in DistInputs :
         /\ nets' = <<a, b>>
         /\ dist' = DistanceOutcome(a, b)
    /\ pc' = "distance"
    /\ UNCHANGED <<cnf, doc, graph, query, paths, call, ret, tbl_df>>

InitDist == Idle
NextDist == Distance
SpecDist == InitDist /\ [][NextDist]_vars

(***************************************************************************)
(* State machine of the topology synthesizer: a config tree is collected   *)
(* into a graph document, the document is loaded.                          *)
(***************************************************************************)
\* the interface networks of the tree
InetsOf(c) ==
    LET ifas == list_interface_addrs(c)
    IN [i \in 1..Len(ifas) |-> InterfaceNetwork(ifas[i])] \o <<>>

CollectNetworks ==
    /\ pc = "idle"
    /\ \E c \in ConfigTrees :
         /\ cnf' = c
         /\ IF config_file_raises(c) \/ list_firewall_addrs_raises(c)
            THEN doc' = Err("ValueError")
            ELSE \E fas \in Perms(list_firewall_addrs(c)) :
                   IF Step4Raises(fas, InetsOf(c), NET_MAX_PREFIX)
                   THEN doc' = Err("ValueError")
                   ELSE \E snets \in
                            Perms(Step4Nets(fas, InetsOf(c), NET_MAX_PREFIX)) :
                          doc' = collect_networks_from_config_file(c, fas, snets)
    /\ pc' = "collected"
    /\ UNCHANGED <<graph, query, paths, nets, dist, call, ret, tbl_df>>

LoadCollected ==
    /\ pc = "collected"
    /\ ~IsErr(doc)
    /\ graph' = load(doc)
    /\ pc' = "loaded"
    /\ UNCHANGED <<cnf, doc, query, paths, nets, dist, call, ret, tbl_df>>

InitBuild == Idle
NextBuild == CollectNetworks \/ LoadCollected
SpecBuild == InitBuild /\ [][NextBuild]_vars

(***************************************************************************)
(* State machine of the path finder: a document is loaded, then queried.   *)
(***************************************************************************)
LoadFile ==
    /\ pc = "idle"
    /\ \E d \in GraphDocs :
         /\ doc' = d
         /\ graph' = load(d)
    /\ pc' = "loaded"
    /\ UNCHANGED <<cnf, query, paths, nets, dist, call, ret, tbl_df>>

\* the paths all_shortest_paths yields when find_paths gets that far
ShortestPathsFor(g, src, dst) ==
    LET src_net == find_a_net_node_by_ip(g, src)
        dst_net == find_a_net_node_by_ip(g, dst)
    IN IF src_net = None \/ dst_net = None \/ src_net = dst_net THEN {}
       ELSE all_shortest_paths(g, src_net.id, dst_net.id)

FindPaths ==
    /\ pc = "loaded"
    /\ ~IsErr(graph)
    /\ \E src \in QueryIps, dst \in QueryIps, nt \in NodeTypes :
         \E nss \in Perms(ShortestPathsFor(graph, src, dst)) :
            /\ query' = [src |-> src, dst |-> dst, node_type |-> nt]
            /\ paths' = find_paths(graph, src, dst, nt, nss)
    /\ pc' = "found"
    /\ UNCHANGED <<cnf, doc, graph, nets, dist, call, ret, tbl_df>>

Init == Idle
Next == LoadFile \/ FindPaths
Spec == Init /\ [][Next]_vars

(***************************************************************************)
(* Properties of distance().                                               *)
(***************************************************************************)
\* a valid canonical prefix: host (bare or /32) or network without host bits
IsCanonical(s) == ~IsErr(IpNetwork(s))

IsHost(s) == StrLen(s) = AddrBits

\* n is a network (prefix length below 32) whose range holds the host h
NetworkHoldsHost(n, h) ==
    /\ IsCanonical(n) /\ n.len # NoLen /\ n.len < AddrBits
    /\ IsHost(h)
    /\ \A i \in 1..4 :
          h.ip[i] \div Pow2(8 - OctetBits(n.len, i))
              = n.ip[i] \div Pow2(8 - OctetBits(n.len, i))

\* C9: distance is symmetric: the result of distance(A, B) is the result of
\* distance(B, A) for all valid canonical prefixes, +infinity included.
C9_DistanceSymmetric ==
    (pc = "distance" /\ IsCanonical(nets[1]) /\ IsCanonical(nets[2]))
        => dist = DistanceOutcome(nets[2], nets[1])

\* two disjoint networks were measured through their common supernet
C9_Witness ==
    /\ pc = "distance"
    /\ nets = <<Pfx(IP_N1, 24), Pfx(IP_N2, 24)>>
    /\ dist = [val |-> 4]

\* C10: a host (bare or /32) and a network containing it are at distance 1,
\* in either argument order and for every prefix length of the network.
C10_HostInNetworkIsOne ==
    pc = "distance" =>
        /\ NetworkHoldsHost(nets[2], nets[1]) => dist = [val |-> 1]
        /\ NetworkHoldsHost(nets[1], nets[2]) => dist = [val |-> 1]

\* distance(N, h) was computed for a /16 network N and a bare host h in it
C10_Witness ==
    /\ pc = "distance"
    /\ nets = <<Pfx(IP_192, 16), Pfx(IP_H1, NoLen)>>
    /\ dist = [val |-> 1]


(***************************************************************************)
(* Properties of the path finder (specification Spec).                     *)
(***************************************************************************)
\* the best enclosing nodes of the end points of the query made
SrcNode == find_a_net_node_by_ip(graph, query.src)
DstNode == find_a_net_node_by_ip(graph, query.dst)

Returned == "val" \in DOMAIN paths

Adjacent(g, a, b) == \E i \in 1..Len(g.edges) : SameEdge(g.edges[i], a, b)

\* no node of the graph has an addrs entry that is, or covers, the address
CoveredByNoNode(g, ip) ==
    \A i \in 1..Len(g.nodes) :
        \/ g.nodes[i].attrs = None
        \/ \A k \in 1..Len(g.nodes[i].attrs.addrs) :
              LET a == g.nodes[i].attrs.addrs[k]
              IN /\ a # Pfx(ip.ip, AddrBits)
                 /\ ~AddrInNetwork(ip, to_network(a))

\* C1: when both addresses resolve to the same best enclosing node,
\* find_paths returns exactly [[node]] if node_type is unset, is the wildcard
\* "any" or is the node's type, and [] otherwise.
C1_SameNodeSinglePath ==
    (pc = "found" /\ SrcNode # None /\ SrcNode = DstNode) =>
        paths = IF \/ query.node_type = NoType
                   \/ query.node_type = "any"
                   \/ query.node_type = SrcNode.type
                THEN [val |-> << <<SrcNode>> >>]
                ELSE [val |-> <<>>]

\* C2: without a node_type filter every returned path between two different
\* nodes is a walk: it starts at the node of src_ip, ends at the node of
\* dst_ip, and consecutive elements are joined by an edge.
C2_PathIsOrderedWalk ==
    (/\ pc = "found" /\ query.node_type = NoType /\ Returned
     /\ SrcNode # None /\ DstNode # None /\ SrcNode # DstNode) =>
        \A i \in 1..Len(paths.val) :
            LET p == paths.val[i]
            IN /\ p # <<>>
               /\ p[1] = SrcNode
               /\ p[Len(p)] = DstNode
               /\ \A k \in 1..(Len(p) - 1) :
                     Adjacent(graph, p[k].id, p[k + 1].id)

\* C3: find_paths returns [] and raises nothing when the two addresses
\* resolve to different nodes between which the graph has no path.
C3_NoPathIsEmpty ==
    (/\ pc = "found"
     /\ SrcNode # None /\ DstNode # None /\ SrcNode # DstNode
     /\ all_shortest_paths(graph, SrcNode.id, DstNode.id) = {}) =>
        paths = [val |-> <<>>]

\* C4: find_paths returns [] without raising when src_ip or dst_ip is in the
\* addrs of no node, for every graph and node_type.
C4_UnresolvedIsEmpty ==
    (pc = "found" /\ (\/ CoveredByNoNode(graph, query.src)
                      \/ CoveredByNoNode(graph, query.dst))) =>
        paths = [val |-> <<>>]

\* src_ip is enclosed by a node, dst_ip by none, and the query returned []
C4_Witness ==
    /\ pc = "found"
    /\ SrcNode # None
    /\ CoveredByNoNode(graph, query.dst)
    /\ graph.edges # <<>>
    /\ paths = [val |-> <<>>]

\* C7 as stated: load_graph fails for every document that is empty, not a
\* mapping, without nodes or links, with a non-iterable nodes or links, or
\* with an empty nodes or links collection.
C7_RejectsEmptyCollections ==
    pc = "loaded" =>
        ((\/ doc.shape # "mapping"
          \/ doc.nodes = <<>>
          \/ doc.links = <<>>) => IsErr(graph))

\* C7 amended: load_graph fails, before any graph exists, for every document
\* that is empty, not a mapping, without nodes or links, or with a
\* non-iterable nodes or links; a mapping whose nodes or links collection is
\* empty is loaded.
C7_RejectsMalformed ==
    pc = "loaded" =>
        /\ doc.shape # "mapping" => IsErr(graph)
        /\ (doc.shape = "mapping" /\ (doc.nodes = <<>> \/ doc.links = <<>>))
              => (~IsErr(graph) /\ Len(graph.edges) <= Len(doc.links))

\* a document with a scalar in place of its nodes was refused
C7_Witness ==
    /\ pc = "loaded"
    /\ doc.shape = "scalar_nodes"
    /\ graph = Err("ValueError")

(***************************************************************************)
(* Properties of the topology synthesizer (specification SpecBuild).       *)
(***************************************************************************)
NodeIds(ns) == {ns[i].id : i \in 1..Len(ns)}

NoDuplicateIds(items) ==
    \A i \in 1..Len(items), j \in 1..Len(items) :
        i # j => items[i].id # items[j].id

\* no "system global" block of the tree carries a host name
HostnameAbsent(c) ==
    \A i \in 1..Len(c.configs) :
        c.configs[i].config = "system global"
            => "hostname" \notin DOMAIN c.configs[i]

\* no "system interface" edit of the tree carries an ip
NoInterfaceIp(c) ==
    \A i \in 1..Len(c.configs) :
        c.configs[i].config = "system interface"
            => \A k \in 1..Len(c.configs[i].edits) :
                  "ip" \notin DOMAIN c.configs[i].edits[k]

\* C5: loading the document built from a config tree gives a graph whose
\* node ids are the ids of the document's nodes and whose edge ids are the
\* ids of the document's links.
C5_RoundTripIds ==
    (pc = "loaded" /\ cnf # None) =>
        /\ ~IsErr(graph)
        /\ NodeIds(graph.nodes) = NodeIds(doc.nodes)
        /\ {graph.edges[i].attrs.id : i \in 1..Len(graph.edges)}
              = NodeIds(doc.links)

\* a built document with an address-object network was loaded
C5_Witness ==
    /\ pc = "loaded" /\ cnf # None
    /\ Len(doc.links) >= 3
    /\ \E i \in 1..Len(doc.links) : doc.links[i].distance = InfSentinel
    /\ Len(graph.edges) = Len(doc.links)

\* C6: in every document built from a config tree no two nodes share an id
\* and no two links share an id.
C6_UniqueIds ==
    (pc = "collected" /\ ~IsErr(doc)) =>
        /\ NoDuplicateIds(doc.nodes)
        /\ NoDuplicateIds(doc.links)

\* C8: building fails, with nothing emitted, when the host name is absent
\* and when no interface has an ip.
C8_MissingHostOrInterfaceFails ==
    (/\ pc = "collected" /\ "configs" \in DOMAIN cnf
     /\ (HostnameAbsent(cnf) \/ NoInterfaceIp(cnf))) =>
        doc = Err("ValueError")

\* a tree with interfaces and addresses but no host name was refused
C8_Witness ==
    /\ pc = "collected" /\ "configs" \in DOMAIN cnf
    /\ HostnameAbsent(cnf) /\ ~NoInterfaceIp(cnf)
    /\ EditsOf(cnf, "firewall address") # <<>>
    /\ doc = Err("ValueError")


(***************************************************************************)
(* netutils.py called with unchecked arguments.  An argument is a record   *)
(* with a kind: "int" is a value that is not a str, "text" a str that      *)
(* IPV4_IP_RE rejects, "addr" a str it accepts: four numbers of up to      *)
(* three digits and an optional "/<one or two digits>" (len).              *)
(***************************************************************************)
IntArg == [kind |-> "int"]
TextArg == [kind |-> "text"]
AddrArg(ip, len) == [kind |-> "addr", ip |-> ip, len |-> len]

\* utils.is_str(obj)
is_str(a) == a.kind # "int"

\* IPV4_IP_RE.match(s)
MatchesIpv4Re(a) == a.kind = "addr"

\* UNI_NETMASK_RE.match(netmask)
MatchesUniNetmaskRe(a) ==
    a.kind = "addr" /\ a.ip = <<255, 255, 255, 255>> /\ a.len = NoLen

\* ipaddress accepts the octets of a dotted quad
ValidOctets(ip) == \A i \in 1..4 : ip[i] <= 255

\* ipaddress._prefix_from_ip_int: the prefix length of a netmask, NoLen when
\* the bits are not ones followed by zeros
PrefixFromIpInt(mask) ==
    IF \E p \in 0..AddrBits : mask = NetworkAddress(<<255, 255, 255, 255>>, p)
    THEN CHOOSE p \in 0..AddrBits :
             mask = NetworkAddress(<<255, 255, 255, 255>>, p)
    ELSE NoLen

\* ipaddress._prefix_from_ip_string: a netmask, else a hostmask, else NoLen
\* (NetmaskValueError)
PrefixFromIpString(mask) ==
    IF PrefixFromIpInt(mask) # NoLen THEN PrefixFromIpInt(mask)
    ELSE PrefixFromIpInt(<<255 - mask[1], 255 - mask[2],
                           255 - mask[3], 255 - mask[4]>>)

\* str(ipaddress.ip_interface(addr)) for a str IPV4_IP_RE accepts
IpInterfaceOutcome(a) ==
    IF ValidOctets(a.ip) /\ (a.len = NoLen \/ a.len <= AddrBits)
    THEN [val |-> InterfaceStr(Pfx(a.ip, a.len))]
    ELSE Err("ValueError")

\* ipaddress.ip_network('/'.join((addr, netmask))) raises ValueError
JoinedNetworkRaises(addr, netmask) ==
    \/ addr.len # NoLen \/ netmask.len # NoLen     \* more than one "/"
    \/ ~ValidOctets(addr.ip) \/ ~ValidOctets(netmask.ip)
    \/ PrefixFromIpString(netmask.ip) = NoLen
    \/ IsErr(IpNetwork(Pfx(addr.ip, PrefixFromIpString(netmask.ip))))

\* what a call subnet_to_ip(addr, netmask) produces
SubnetToIpOutcome(addr, netmask) ==
    IF ~is_str(addr) \/ ~is_str(netmask) THEN Err("ValueError")
    ELSE IF ~MatchesIpv4Re(addr) \/ ~MatchesIpv4Re(netmask)
         THEN Err("ValueError")
    ELSE IF MatchesUniNetmaskRe(netmask) THEN IpInterfaceOutcome(addr)
    ELSE IF JoinedNetworkRaises(addr, netmask) THEN IpInterfaceOutcome(addr)
    ELSE [val |-> subnet_to_ip(addr.ip, PrefixFromIpString(netmask.ip))]

\* what a call iprange_to_ipsets(start_ip, end_ip, prefix) produces, for
\* addresses netaddr accepts
IprangeOutcome(start, end, prefix) ==
    IF ~is_str(start) \/ ~is_str(end) THEN Err("ValueError")
    ELSE IF ~MatchesIpv4Re(start) \/ ~MatchesIpv4Re(end)
         THEN Err("ValueError")
    ELSE IF iprange_raises(start.ip, end.ip) THEN Err("ValueError")
    ELSE [val |-> iprange_to_ipsets(start.ip, end.ip, prefix)]


(***************************************************************************)
(* State machine of the arithmetic library: one call of is_ip_in_addrs(),  *)
(* subnet_to_ip() or iprange_to_ipsets().                                  *)
(***************************************************************************)
MaxCands == 2       \* candidate addresses given to is_ip_in_addrs()
MaxSpan  == 3       \* addresses after start_ip in a range

\* the next address
Succ(ip) ==
    IF ip[4] < 255 THEN <<ip[1], ip[2], ip[3], ip[4] + 1>>
    ELSE IF ip[3] < 255 THEN <<ip[1], ip[2], ip[3] + 1, 0>>
    ELSE IF ip[2] < 255 THEN <<ip[1], ip[2] + 1, 0, 0>>
    ELSE <<(ip[1] + 1) % 256, 0, 0, 0>>

RECURSIVE AddrPlus(_, _)
AddrPlus(ip, k) == IF k = 0 THEN ip ELSE AddrPlus(Succ(ip), k - 1)

\* a <= b as addresses
AddrLeq(a, b) ==
    \/ a = b
    \/ \E i \in 1..4 : a[i] < b[i] /\ \A j \in 1..(i - 1) : a[j] = b[j]

ContainsIps ==
    { Pfx(IP_H1, NoLen), Pfx(IP_H1B, NoLen), Pfx(IP_H1, 32),
      Pfx(IP_H2, NoLen), Pfx(IP_LO, NoLen) }

ContainsCands ==
    { Pfx(IP_N1, 24), Pfx(IP_N2, 24), Pfx(IP_H1, 32), Pfx(IP_H1, NoLen),
      Pfx(IP_H1, 24), Pfx(IP_10, 8), Pfx(IP_ANY, 0) }

SubnetAddrArgs ==
    { AddrArg(IP_10, NoLen), AddrArg(IP_10_IF, NoLen), AddrArg(IP_N1, NoLen),
      AddrArg(<<999, 0, 0, 1>>, NoLen), AddrArg(IP_10_IF, 24),
      IntArg, TextArg }

SubnetMaskArgs ==
    { AddrArg(<<255, 255, 255, 255>>, NoLen),
      AddrArg(<<255, 255, 255, 0>>, NoLen), AddrArg(<<255, 0, 0, 0>>, NoLen),
      AddrArg(<<255, 0, 255, 0>>, NoLen), AddrArg(<<0, 0, 0, 255>>, NoLen),
      AddrArg(<<255, 255, 255, 0>>, 24), IntArg, TextArg }

RangeStarts == { <<192, 168, 1, 254>>, IP_H1, IP_10_IF }

RangeArgs ==
    { AddrArg(AddrPlus(a, k), NoLen) : a \in RangeStarts, k \in 0..MaxSpan }
        \cup { IntArg, TextArg }

Contains ==
    /\ pc = "idle"
    /\ \E ip \in ContainsIps, addrs \in InjSeqs(ContainsCands, MaxCands) :
         /\ call' = [op |-> "is_ip_in_addrs", ip |-> ip, addrs |-> addrs]
         /\ ret' = [val |-> is_ip_in_addrs(ip, addrs)]
    /\ pc' = "returned"
    /\ UNCHANGED <<cnf, doc, graph, query, paths, nets, dist, tbl_df>>

SubnetToIp ==
    /\ pc = "idle"
    /\ \E addr \in SubnetAddrArgs, netmask \in SubnetMaskArgs :
         /\ call' = [op |-> "subnet_to_ip", addr |-> addr,
                     netmask |-> netmask]
         /\ ret' = SubnetToIpOutcome(addr, netmask)
    /\ pc' = "returned"
    /\ UNCHANGED <<cnf, doc, graph, query, paths, nets, dist, tbl_df>>

IprangeToIpsets ==
    /\ pc = "idle"
    /\ \E start \in RangeArgs, end \in RangeArgs, prefix \in {AddrBits, 24} :
         /\ call' = [op |-> "iprange_to_ipsets", start |-> start,
                     end |-> end, prefix |-> prefix]
         /\ ret' = IprangeOutcome(start, end, prefix)
    /\ pc' = "returned"
    /\ UNCHANGED <<cnf, doc, graph, query, paths, nets, dist, tbl_df>>

InitNet == Idle
NextNet == Contains \/ SubnetToIp \/ IprangeToIpsets
SpecNet == InitNet /\ [][NextNet]_vars

(***************************************************************************)
(* Properties of is_ip_in_addrs(), subnet_to_ip(), iprange_to_ipsets().    *)
(***************************************************************************)
\* the address of ip lies in the network that the address and prefix length
\* of the candidate c denote
InNetworkRange(ip, c) ==
    \A i \in 1..4 :
        ip.ip[i] \div Pow2(8 - OctetBits(StrLen(c), i))
            = c.ip[i] \div Pow2(8 - OctetBits(StrLen(c), i))

\* the candidate c has bits set after its prefix length
HasHostBits(c) ==
    \E i \in 1..4 : c.ip[i] % Pow2(8 - OctetBits(StrLen(c), i)) # 0

\* C11: contains(ip, candidates) is true iff the /32-normalized ip equals a
\* candidate or the ip lies in the network range of a candidate prefix; so
\* it is false for no candidates and for an ip no candidate covers.
C11_ContainsIffEqualOrInRange ==
    (pc = "returned" /\ call.op = "is_ip_in_addrs") =>
        (ret.val <=>
            \E i \in 1..Len(call.addrs) :
                \/ normalize_ip(call.ip) = call.addrs[i]
                \/ InNetworkRange(call.ip, call.addrs[i]))

\* C11 (amended): as above, where a candidate whose address has bits set
\* after its prefix length covers that one address only.
C11_ContainsHostBitsAsHost ==
    (pc = "returned" /\ call.op = "is_ip_in_addrs") =>
        (ret.val <=>
            \E i \in 1..Len(call.addrs) :
                \/ normalize_ip(call.ip) = call.addrs[i]
                \/ IF HasHostBits(call.addrs[i])
                   THEN call.ip.ip = call.addrs[i].ip
                   ELSE InNetworkRange(call.ip, call.addrs[i]))

\* an ip was found in the second of two candidates, a /24 network
C11_Witness ==
    /\ pc = "returned" /\ call.op = "is_ip_in_addrs"
    /\ call.ip = Pfx(IP_H1B, NoLen)
    /\ call.addrs = <<Pfx(IP_H1, 24), Pfx(IP_N1, 24)>>
    /\ ret.val

\* the dotted quad is a netmask or a host mask
IsMask(m) ==
    \E p \in 0..AddrBits :
        \/ \A i \in 1..4 : m[i] = 256 - Pow2(8 - OctetBits(p, i))
        \/ \A i \in 1..4 : m[i] = Pow2(8 - OctetBits(p, i)) - 1

\* an argument that is a dotted-quad IPv4 string
IsDottedQuad(a) ==
    a.kind = "addr" /\ a.len = NoLen /\ \A i \in 1..4 : a.ip[i] \in 0..255

\* C12: subnet_to_prefix(addr, netmask) fails for every invalid input: an
\* argument that is no string or no dotted-quad IPv4 string, or a netmask
\* that is no valid netmask; with the all-ones netmask it returns addr/32.
C12_InvalidInputFails ==
    (pc = "returned" /\ call.op = "subnet_to_ip") =>
        /\ ( \/ ~IsDottedQuad(call.addr) \/ ~IsDottedQuad(call.netmask)
             \/ ~IsMask(call.netmask.ip) ) => IsErr(ret)
        /\ ( /\ IsDottedQuad(call.addr)
             /\ call.netmask = AddrArg(<<255, 255, 255, 255>>, NoLen) )
               => ret = [val |-> Pfx(call.addr.ip, AddrBits)]

\* C13: range_to_prefixes(start_ip, end_ip, prefix) lists "<a>/<prefix>" once
\* for every address a from start_ip to end_ip in ascending order, so
\* end - start + 1 entries, and none when end_ip is below start_ip; it fails
\* when the first octets of start_ip and end_ip differ.
C13_RangeEnumerated ==
    ( /\ pc = "returned" /\ call.op = "iprange_to_ipsets"
      /\ IsDottedQuad(call.start) /\ IsDottedQuad(call.end) ) =>
        IF call.start.ip[1] # call.end.ip[1] THEN IsErr(ret)
        ELSE /\ ~IsErr(ret)
             /\ \A i \in 1..Len(ret.val) : ret.val[i].len = call.prefix
             /\ IF AddrLeq(call.start.ip, call.end.ip)
                THEN /\ Len(ret.val) >= 1
                     /\ ret.val[1].ip = call.start.ip
                     /\ ret.val[Len(ret.val)].ip = call.end.ip
                     /\ \A i \in 1..(Len(ret.val) - 1) :
                           ret.val[i + 1].ip = Succ(ret.val[i].ip)
                ELSE ret.val = <<>>

\* a range over the end of a third octet was listed: .254, .255, .0, .1
C13_Witness ==
    /\ pc = "returned" /\ call.op = "iprange_to_ipsets"
    /\ call.start = AddrArg(<<192, 168, 1, 254>>, NoLen)
    /\ call.end = AddrArg(<<192, 168, 2, 1>>, NoLen)
    /\ ~IsErr(ret) /\ Len(ret.val) = 4


(***************************************************************************)
(* parser.py: queries on a tree with virtual domains.  Top-level entries   *)
(* are leaf blocks, the entry [config |-> "global", configs |-> blocks]    *)
(* and containers [config |-> "vdom", edits |-> <<[edit |-> domain,        *)
(* configs |-> blocks], ..>>].  A path expression is one of                *)
(*   [form |-> "blocks", name |-> n]   configs[?config=='n']               *)
(*   [form |-> "edits",  name |-> n]   configs[?config=='n'].edits[]       *)
(* A search result is None (JSON null) or [val |-> list]; a list that is   *)
(* an element of a list is the record [list |-> ..].                       *)
(***************************************************************************)
NoVdom == ""           \* vdom=None
NoFn == "none"         \* normalize_fn=None

\* the right-hand side of the path expression on one mapping with configs:
\* the filter projection, before any flatten of the expression
ProjectionOf(exp, c) ==
    LET HasEdits(b) == "edits" \in DOMAIN b
        Edits(b) == b.edits
    IN IF exp.form = "blocks" THEN ConfigsNamed(c, exp.name)
       ELSE SeqFilterMap(ConfigsNamed(c, exp.name), HasEdits, Edits)

\* utils.search(path_exp, data)
search(exp, c) ==
    IF exp.form = "blocks" THEN [val |-> ProjectionOf(exp, c)]
    ELSE [val |-> Flatten(ProjectionOf(exp, c))]

\* utils.search(_global_path_exp(path_exp), data): null when "[0]" finds no
\* global entry
search_global(exp, c) ==
    LET g == ConfigsNamed(c, "global")
    IN IF g = <<>> THEN None ELSE search(exp, [configs |-> g[1].configs])

\* configs[?config=='vdom'].edits[] and, with a vdom,
\* configs[?config=='vdom' && edits[0].edit=='<vdom>'].edits[]
VdomEdits(c, vdom) ==
    LET Selected(b) ==
            /\ b.config = "vdom"
            /\ vdom # NoVdom => (b.edits # <<>> /\ b.edits[1].edit = vdom)
        Edits(b) == b.edits
    IN Flatten(SeqFilterMap(c.configs, Selected, Edits))

\* utils.search(_vdoms_path_exp(path_exp, vdom=vdom), data)
search_vdoms(exp, c, vdom) ==
    LET AsList(l) == [list |-> l]
        Every(l) == TRUE
    IN CHOOSE res \in
         { IF vdom = NoVdom
           THEN IF exp.form = "blocks"
                THEN [val |-> Flatten(per)]                \* path_exp + "[]"
                ELSE [val |-> Flatten(Flatten(per))]
           ELSE IF exp.form = "blocks"
                THEN [val |-> SeqFilterMap(per, Every, AsList)]
                ELSE [val |-> SeqFilterMap(Flatten(per), Every, AsList)] :
           per \in { [i \in 1..Len(ds) |-> ProjectionOf(exp, ds[i])] \o <<>> :
                       ds \in {VdomEdits(c, vdom)} } } : TRUE

\* firewall.normalize_fa(fa_dict) raises ValueError
normalize_fa_raises(fa) ==
    "start" \in DOMAIN fa /\ iprange_raises(fa.start, fa.end)

\* firewall.normalize_fa(fa_dict) for an address edit: the row of the table
normalize_fa(fa) ==
    IF "start" \in DOMAIN fa
    THEN [edit |-> fa.edit,
          addrs |-> [list |-> iprange_to_ipsets(fa.start, fa.end, AddrBits)]]
    ELSE IF "subnet" \in DOMAIN fa
    THEN [edit |-> fa.edit,
          addrs |-> [list |-> <<subnet_to_ip(fa.subnet[1], fa.subnet[2])>>]]
    ELSE [edit |-> fa.edit, addrs |-> [list |-> <<>>]]

\* the second half of jmespath_search_1: normalize_fn on the result, or on
\* each of its elements when it is a list
Normalized(res, fn) ==
    LET IsList(x) == "list" \in DOMAIN x
        Raises(x) == ~IsList(x) /\ normalize_fa_raises(x)
        Every(x) == TRUE
    IN IF fn = NoFn THEN res
       ELSE IF res = None THEN Err("TypeError")     \* "start-ip" in None
       ELSE IF \E i \in 1..Len(res.val) : IsList(res.val[i])
            THEN Err("TypeError")                   \* fa_dict["addrs"] = []
       ELSE IF \E i \in 1..Len(res.val) : Raises(res.val[i])
            THEN Err("ValueError")
       ELSE [val |-> SeqFilterMap(res.val, Every, normalize_fa)]

\* bool(res) is False
Falsy(res) == IF res = None THEN TRUE ELSE res.val = <<>>

\* jmespath_search that puts the per-domain results first
JmespathSearchVdomsFirst(exp, c, fn, has_vdoms_, vdom) ==
    IF ~has_vdoms_ THEN Normalized(search(exp, c), fn)
    ELSE CHOOSE res \in
           { IF IsErr(res_global) THEN res_global
             ELSE IF IsErr(res_vdoms) THEN res_vdoms
             ELSE IF Falsy(res_global) THEN res_vdoms
             ELSE IF Falsy(res_vdoms) THEN res_global
             ELSE [val |-> res_vdoms.val \o res_global.val] :
             res_global \in {Normalized(search_global(exp, c), fn)},
             res_vdoms \in {Normalized(search_vdoms(exp, c, vdom), fn)} } : TRUE

\* jmespath_search(path_exp, data, normalize_fn, has_vdoms_, vdom)
jmespath_search(exp, c, fn, has_vdoms_, vdom) ==
    IF ~has_vdoms_ THEN Normalized(search(exp, c), fn)
    ELSE CHOOSE res \in
           { IF IsErr(res_global) THEN res_global
             ELSE IF IsErr(res_vdoms) THEN res_vdoms
             ELSE IF Falsy(res_global) THEN res_vdoms
             ELSE IF Falsy(res_vdoms) THEN res_global
             ELSE [val |-> res_global.val \o res_vdoms.val] :
             res_global \in {Normalized(search_global(exp, c), fn)},
             res_vdoms \in {Normalized(search_vdoms(exp, c, vdom), fn)} } : TRUE


(***************************************************************************)
(* State machine of the query layer: one call of jmespath_search().        *)
(***************************************************************************)
MaxDomains == 2     \* virtual domains of a tree

DomainNames == {"root", "mng", "dmz"}

\* the "system global" block of the domain (or of "global")
SgBlock(d) == [config |-> "system global", hostname |-> d]

\* the "firewall address" block of the domain (or of "global")
FaBlock(d) ==
    [config |-> "firewall address",
     edits |->
        IF d = "root"
        THEN <<[edit |-> "r_net", subnet |-> <<IP_N1, 24>>],
               [edit |-> "r_host", subnet |-> <<IP_H1, 32>>]>>
        ELSE IF d = "mng" THEN <<[edit |-> "m_net", subnet |-> <<IP_N2, 24>>]>>
        ELSE IF d = "dmz" THEN <<[edit |-> "d_net", subnet |-> <<IP_10, 8>>]>>
        ELSE <<[edit |-> "g_site", subnet |-> <<IP_192, 16>>]>>]

DomainConfigs(d) == { <<>>, <<FaBlock(d)>>, <<SgBlock(d), FaBlock(d)>> }

\* the edits of the vdom entries for the domains ns, in that order
DomainEdits(ns) ==
    { [i \in 1..Len(ns) |-> [edit |-> ns[i], configs |-> cf[i]]] \o <<>> :
        cf \in { f \in [1..Len(ns) -> UNION {DomainConfigs(d) : d \in DomainNames}] :
                    \A i \in 1..Len(ns) : f[i] \in DomainConfigs(ns[i]) } }

\* one vdom entry for all domains, or one per domain
VdomEntries(des) ==
    { <<[config |-> "vdom", edits |-> des]>>,
      [i \in 1..Len(des) |-> [config |-> "vdom", edits |-> <<des[i]>>]]
          \o <<>> }

GlobalEntries ==
    { <<>>,
      <<[config |-> "global", configs |-> <<>>]>>,
      <<[config |-> "global", configs |-> <<SgBlock("g"), FaBlock("g")>>]>> }

QueryTrees ==
    { [configs |-> <<SgBlock("g"), FaBlock("g")>>],
      [configs |-> <<SgBlock("g")>>] } \cup
    UNION { UNION { { [configs |-> g \o vs] :
                        g \in GlobalEntries, vs \in VdomEntries(des) } :
                    des \in DomainEdits(ns) } :
            ns \in InjSeqs(DomainNames, MaxDomains) \ {<<>>} }

PathExps ==
    { [form |-> "blocks", name |-> "system global"],
      [form |-> "edits", name |-> "firewall address"] }

Query ==
    /\ pc = "idle"
    /\ \E c \in QueryTrees, exp \in PathExps, vdom \in {NoVdom} \cup DomainNames,
          fn \in {NoFn, "normalize_fa"} :
         /\ fn # NoFn => exp.form = "edits"
         /\ cnf' = c
         /\ call' = [op |-> "jmespath_search", exp |-> exp, fn |-> fn,
                     has_vdoms_ |-> has_vdom(c), vdom |-> vdom]
         /\ ret' = jmespath_search(exp, c, fn, has_vdom(c), vdom)
    /\ pc' = "returned"
    /\ UNCHANGED <<doc, graph, query, paths, nets, dist, tbl_df>>

InitQuery == Idle
NextQuery == Query
SpecQuery == InitQuery /\ [][NextQuery]_vars


(***************************************************************************)
(* Properties of the query layer.                                          *)
(***************************************************************************)
\* the domain edits of the tree, in tree order
DomainsInOrder(c) ==
    LET IsVdom(b) == b.config = "vdom"
        Edits(b) == b.edits
    IN Flatten(SeqFilterMap(c.configs, IsVdom, Edits))

\* the results of the expression evaluated directly on each listed domain,
\* concatenated in that order
RECURSIVE DirectOnDomains(_, _)
DirectOnDomains(exp, ds) ==
    IF ds = <<>> THEN <<>>
    ELSE search(exp, [configs |-> Head(ds).configs]).val
            \o DirectOnDomains(exp, Tail(ds))

\* the results of the expression evaluated directly on the global section
DirectOnGlobal(exp, c) ==
    LET IsGlobal(b) == b.config = "global"
        g == SelectSeq(c.configs, IsGlobal)
    IN IF g = <<>> THEN <<>> ELSE search(exp, [configs |-> g[1].configs]).val

\* the domains of the tree with the given name
DomainsCalled(c, vdom) ==
    LET Called(d) == d.edit = vdom
    IN SelectSeq(DomainsInOrder(c), Called)

\* the results in a list, with lists that are elements replaced by their
\* elements
RECURSIVE Leaves(_)
Leaves(l) ==
    IF l = <<>> THEN <<>>
    ELSE (IF "list" \in DOMAIN Head(l) THEN Leaves(Head(l).list)
          ELSE <<Head(l)>>) \o Leaves(Tail(l))

\* C15: a query without normalization and without domain filter returns,
\* on a multi-domain tree, the results of the global section followed by
\* the results of every domain in tree order, and on a single-domain tree
\* the results of the expression on the tree itself.
C15_GlobalThenDomains ==
    ( /\ pc = "returned" /\ call.op = "jmespath_search"
      /\ call.fn = NoFn /\ call.vdom = NoVdom ) =>
        /\ ~IsErr(ret) /\ ret # None
        /\ IF has_vdom(cnf)
           THEN ret.val = DirectOnGlobal(call.exp, cnf)
                            \o DirectOnDomains(call.exp, DomainsInOrder(cnf))
           ELSE ret.val = DirectOnDomains(call.exp, <<cnf>>)

\* addresses of the global section, then of "mng", then of "root"
C15_Witness ==
    /\ pc = "returned" /\ call.op = "jmespath_search"
    /\ call.fn = NoFn /\ call.vdom = NoVdom /\ call.exp.form = "edits"
    /\ has_vdom(cnf) /\ ~IsErr(ret) /\ ret # None
    /\ Len(ret.val) = 4
    /\ ret.val[1].edit = "g_site" /\ ret.val[2].edit = "m_net"
    /\ ret.val[3].edit = "r_net" /\ ret.val[4].edit = "r_host"

\* C16: with a domain filter, the per-domain part of the result (what
\* follows the results of the global section) holds the results of the
\* named domain, all of them and no others.
C16_FilterSelectsDomain ==
    ( /\ pc = "returned" /\ call.op = "jmespath_search"
      /\ call.fn = NoFn /\ call.vdom # NoVdom /\ has_vdom(cnf) ) =>
        /\ ~IsErr(ret)
        /\ Leaves(IF ret = None THEN <<>> ELSE ret.val)
             = DirectOnGlobal(call.exp, cnf)
                 \o DirectOnDomains(call.exp, DomainsCalled(cnf, call.vdom))

\* C17: on a multi-domain tree where the global section or the per-domain
\* part gives nothing, the query raises no error and returns what the
\* other half gives, with or without normalization function.
C17_MissingHalfIsEmpty ==
    ( /\ pc = "returned" /\ call.op = "jmespath_search"
      /\ call.vdom = NoVdom /\ has_vdom(cnf)
      /\ \/ DirectOnGlobal(call.exp, cnf) = <<>>
         \/ DirectOnDomains(call.exp, DomainsInOrder(cnf)) = <<>> ) =>
        /\ ~IsErr(ret)
        /\ Len(IF ret = None THEN <<>> ELSE ret.val)
             = Len(DirectOnGlobal(call.exp, cnf))
                 + Len(DirectOnDomains(call.exp, DomainsInOrder(cnf)))


(***************************************************************************)
(* firewall.py: the address table and the policy table.  A table is        *)
(* [rows |-> <<row, ..>>]; a cell that holds a list is [list |-> seq], a   *)
(* cell that holds a string in place of a list is [str |-> s], a null cell *)
(* is NaN.  The columns "edit" and "name" always hold plain strings; the   *)
(* uuid, comment and addr_type columns are left out.                       *)
(***************************************************************************)
NaN == [nan |-> TRUE]
EmptyStr == [str |-> ""]
ScalarCols == {"edit", "name"}
ADDRS_COL_NAMES == {"addrs", "srcaddrs", "dstaddrs"}

IsNaN(row, k) == k \notin ScalarCols /\ "nan" \in DOMAIN row[k]

\* pandas.DataFrame(list of dicts): the columns are the union of the keys,
\* a key missing in a row is a null cell
DataFrame(rows) ==
    CHOOSE df \in
      { [i \in 1..Len(rs) |->
            [k \in UNION {DOMAIN rs[j] : j \in 1..Len(rs)} |->
                IF k \in DOMAIN rs[i] THEN rs[i][k] ELSE NaN]] \o <<>> :
        rs \in {rows} } : TRUE

\* one record of df.fillna('').to_dict(orient="record")
fillna(row) ==
    [k \in DOMAIN row |-> IF IsNaN(row, k) THEN EmptyStr ELSE row[k]]

\* str(n) for an octet or a prefix length, as character codes
Dec(n) ==
    IF n < 10 THEN <<48 + n>>
    ELSE IF n < 100 THEN <<48 + (n \div 10), 48 + (n % 10)>>
    ELSE <<48 + (n \div 100), 48 + ((n \div 10) % 10), 48 + (n % 10)>>

\* the text "a.b.c.d/len" of a prefix string, as character codes
Text(p) ==
    Dec(p.ip[1]) \o <<46>> \o Dec(p.ip[2]) \o <<46>> \o Dec(p.ip[3])
        \o <<46>> \o Dec(p.ip[4]) \o <<47>> \o Dec(p.len)

\* Python's a < b on strings
RECURSIVE TextLess(_, _)
TextLess(a, b) ==
    IF b = <<>> THEN FALSE
    ELSE IF a = <<>> THEN TRUE
    ELSE IF a[1] # b[1] THEN a[1] < b[1]
    ELSE TextLess(Tail(a), Tail(b))

\* sorted(l) for a list of prefix strings
sorted(l) ==
    LET first(s, j, i) == \/ TextLess(Text(s[j]), Text(s[i]))
                          \/ (s[j] = s[i] /\ j < i)
        rank(s, i) == 1 + Cardinality({j \in 1..Len(s) : first(s, j, i)})
    IN CHOOSE r \in
         { [p \in 1..Len(s) |-> s[CHOOSE i \in 1..Len(s) : rank(s, i) = p]]
             \o <<>> : s \in {l} } : TRUE

\* make_firewall_address_table_1(cnf, has_vdoms_=has_vdom(cnf))
make_firewall_address_table_1(c) ==
    CHOOSE df \in
      { IF IsErr(res) THEN res
        ELSE [rows |-> DataFrame(IF res = None THEN <<>> ELSE res.val)] :
        res \in {jmespath_search(
                    [form |-> "edits", name |-> "firewall address"],
                    c, "normalize_fa", has_vdom(c), NoVdom)} } : TRUE

\* make_firewall_addrgrp_table(cnf, has_vdoms_=has_vdom(cnf)): one row for
\* each member of each group (every group lists at least one member)
make_firewall_addrgrp_table(c) ==
    LET Exploded(g) == [j \in 1..Len(g.member.list) |->
                           [edit |-> g.edit, member |-> g.member.list[j]]]
                       \o <<>>
    IN CHOOSE df \in
         { [rows |-> Flatten([i \in 1..Len(gs) |-> Exploded(gs[i])] \o <<>>)] :
           gs \in { IF res = None THEN <<>> ELSE res.val :
                      res \in {jmespath_search(
                                  [form |-> "edits", name |-> "firewall addrgrp"],
                                  c, NoFn, has_vdom(c), NoVdom)} } } : TRUE

\* make_firewall_address_table(cnf, has_vdoms_=has_vdom(cnf)): the address
\* rows, then for each group row the addrs of its member (left join)
make_firewall_address_table(c) ==
    LET Joined(df_fa, g) ==
            LET Match(r) == r.edit = g.member
                Row(r) == [edit |-> g.edit, addrs |-> r.addrs]
            IN CHOOSE rows \in
                 { IF hits = <<>> THEN <<[edit |-> g.edit, addrs |-> NaN]>>
                   ELSE hits :
                   hits \in {SeqFilterMap(df_fa.rows, Match, Row)} } : TRUE
    IN CHOOSE df \in
         { IF IsErr(df_fa) THEN df_fa
           ELSE IF df_ag.rows = <<>> THEN df_fa
           ELSE IF df_fa.rows = <<>> THEN Err("KeyError")  \* right_on="edit"
           ELSE [rows |-> DataFrame(df_fa.rows \o
                    Flatten([i \in 1..Len(df_ag.rows) |->
                               Joined(df_fa, df_ag.rows[i])] \o <<>>))] :
           df_fa \in {make_firewall_address_table_1(c)},
           df_ag \in {make_firewall_addrgrp_table(c)} } : TRUE

\* get_firewall_address_by_edit(edit, df_fa) where df_fa has rows
get_firewall_address_by_edit(edit, df_fa) ==
    LET Hit(r) == /\ r.edit = edit
                  /\ ~IsNaN(r, "addrs")
                  /\ r.addrs.list # <<>>
        Addrs(r) == r.addrs.list
    IN sorted(Flatten(SeqFilterMap(df_fa.rows, Hit, Addrs)))

\* get_firewall_address_by_edits(edits, df_fa) where df_fa has rows
get_firewall_address_by_edits(edits, df_fa) ==
    IF "str" \in DOMAIN edits
    THEN get_firewall_address_by_edit(edits.str, df_fa)
    ELSE sorted(Flatten([i \in 1..Len(edits.list) |->
                     get_firewall_address_by_edit(edits.list[i], df_fa)]
                 \o <<>>))

\* fp_dict.get(k, False) is true
Given(fp, k) ==
    /\ k \in DOMAIN fp
    /\ fp[k] # [list |-> <<>>] /\ fp[k] # EmptyStr

\* resolv_src_and_dst_in_fp(fp_dict, df_fa) raises: df_fa["edit"] on a table
\* without columns
resolv_raises(fp, df_fa) ==
    /\ df_fa.rows = <<>>
    /\ \/ Given(fp, "srcaddr") /\ ("str" \in DOMAIN fp.srcaddr
                                     \/ fp.srcaddr.list # <<>>)
       \/ Given(fp, "dstaddr") /\ ("str" \in DOMAIN fp.dstaddr
                                     \/ fp.dstaddr.list # <<>>)

\* resolv_src_and_dst_in_fp(fp_dict, df_fa)
resolv_src_and_dst_in_fp(fp, df_fa) ==
    LET keys == DOMAIN fp
                  \cup (IF Given(fp, "srcaddr") THEN {"srcaddrs"} ELSE {})
                  \cup (IF Given(fp, "dstaddr") THEN {"dstaddrs"} ELSE {})
    IN [k \in keys |->
          IF k = "srcaddrs"
          THEN [list |-> get_firewall_address_by_edits(fp.srcaddr, df_fa)]
          ELSE IF k = "dstaddrs"
          THEN [list |-> get_firewall_address_by_edits(fp.dstaddr, df_fa)]
          ELSE fp[k]]

\* make_firewall_policy_table_1(cnf, df_fa) on a tree without vdom entries
make_firewall_policy_table_1(c, df_fa) ==
    CHOOSE df \in
      { IF \E i \in 1..Len(fps) : resolv_raises(fps[i], df_fa)
        THEN Err("KeyError")
        ELSE [rows |-> DataFrame([i \in 1..Len(fps) |->
                           resolv_src_and_dst_in_fp(fps[i], df_fa)] \o <<>>)] :
        fps \in {search([form |-> "edits", name |-> "firewall policy"],
                        c).val} } : TRUE

\* make_firewall_policy_table(filepath) for the file holding the tree c
make_firewall_policy_table(c) ==
    CHOOSE df \in
      { IF IsErr(df_fa) THEN df_fa
        ELSE make_firewall_policy_table_1(c, df_fa) :
        df_fa \in {make_firewall_address_table(c)} } : TRUE

\* search_by_addr_1 that looks at the addrs column only
SearchAddrsColumnOnly(ip_s, df) ==
    LET ip == normalize_ip(ip_s)
        rdf == [i \in 1..Len(df.rows) |-> fillna(df.rows[i])] \o <<>>
        Hit(x) == /\ "addrs" \in DOMAIN x
                  /\ "list" \in DOMAIN x["addrs"]
                  /\ is_ip_in_addrs(ip, x["addrs"].list)
    IN SelectSeq(rdf, Hit)

\* search_by_addr_1(ip_s, tbl_df) for a string ip_s
search_by_addr_1(ip_s, df) ==
    LET ip == normalize_ip(ip_s)
        rdf == [i \in 1..Len(df.rows) |-> fillna(df.rows[i])] \o <<>>
        Hit(x) == \E k \in ADDRS_COL_NAMES :
                     /\ k \in DOMAIN x
                     /\ "list" \in DOMAIN x[k]
                     /\ is_ip_in_addrs(ip, x[k].list)
    IN SelectSeq(rdf, Hit)

(***************************************************************************)
(* State machine of the tables: a table is made from a tree, then searched.*)
(***************************************************************************)
MaxPolicies == 2    \* policy edits of a tree

IP_H0 == <<192, 168, 1, 9>>

TableFaEdits ==
    << [edit |-> "net1", subnet |-> <<IP_N1, 24>>],
       [edit |-> "low", subnet |-> <<IP_H0, 32>>],
       [edit |-> "host1", subnet |-> <<IP_H1, 32>>],
       [edit |-> "gw", subnet |-> <<IP_H1B, 24>>],
       [edit |-> "pool", type |-> "iprange", start |-> IP_H1, end |-> IP_H1B],
       [edit |-> "www", type |-> "fqdn"] >>

TableAddrGrps ==
    { <<>>,
      <<[edit |-> "grp1", member |-> [list |-> <<"net1", "host1">>]]>>,
      <<[edit |-> "grp1", member |-> [list |-> <<"net1", "host1">>]],
        [edit |-> "grp2", member |-> [list |-> <<"ghost">>]]>> }

TablePolicies ==
    << [edit |-> "1", name |-> "p1", srcaddr |-> [list |-> <<"net1">>],
        dstaddr |-> [list |-> <<"host1", "pool">>]],
       [edit |-> "2", name |-> "p2", srcaddr |-> [str |-> "grp1"],
        dstaddr |-> [list |-> <<"low", "host1">>]],
       [edit |-> "3", name |-> "p3", srcaddr |-> [list |-> <<"gw", "gw">>],
        dstaddr |-> [list |-> <<"all">>]],
       [edit |-> "4", name |-> "p4", dstaddr |-> [list |-> <<"www">>]] >>

TableTrees ==
    { [configs |->
         <<[config |-> "firewall address", edits |-> fas]>>
         \o (IF gs = <<>> THEN <<>>
             ELSE <<[config |-> "firewall addrgrp", edits |-> gs]>>)
         \o <<[config |-> "firewall policy", edits |-> fps]>>] :
        fas \in SubSeqs(TableFaEdits, MaxFas),
        gs \in TableAddrGrps,
        fps \in SubSeqs(TablePolicies, MaxPolicies) }

SearchIps == { Pfx(IP_H0, NoLen), Pfx(IP_H1, NoLen), Pfx(IP_H1B, AddrBits),
               Pfx(IP_LO, NoLen) }

\* the outcome of making a table: the table, or the error raised
Made(c, op, t) ==
    /\ cnf' = c
    /\ call' = [op |-> op]
    /\ IF IsErr(t)
       THEN tbl_df' = None /\ ret' = t /\ pc' = "returned"
       ELSE tbl_df' = t /\ ret' = None /\ pc' = "table"

MakeAddressTable ==
    /\ pc = "idle"
    /\ \E c \in TableTrees :
          \E t \in {make_firewall_address_table(c)} :
             Made(c, "make_firewall_address_table", t)
    /\ UNCHANGED <<doc, graph, query, paths, nets, dist>>

MakePolicyTable ==
    /\ pc = "idle"
    /\ \E c \in TableTrees :
          \E t \in {make_firewall_policy_table(c)} :
             Made(c, "make_firewall_policy_table", t)
    /\ UNCHANGED <<doc, graph, query, paths, nets, dist>>

SearchByAddr ==
    /\ pc = "table"
    /\ \E ip_s \in SearchIps :
         /\ call' = [op |-> "search_by_addr_1", ip_s |-> ip_s, tbl |-> call.op]
         /\ ret' = [val |-> search_by_addr_1(ip_s, tbl_df)]
    /\ pc' = "returned"
    /\ UNCHANGED <<cnf, doc, graph, query, paths, nets, dist, tbl_df>>

InitTable == Idle
NextTable == MakeAddressTable \/ MakePolicyTable \/ SearchByAddr
SpecTable == InitTable /\ [][NextTable]_vars


(***************************************************************************)
(* Properties of the tables.                                               *)
(***************************************************************************)
\* the row has a prefix column that is a list containing the ip
RowContains(row, ip) ==
    \E k \in ADDRS_COL_NAMES :
       /\ k \in DOMAIN row
       /\ ~IsNaN(row, k)
       /\ "list" \in DOMAIN row[k]
       /\ is_ip_in_addrs(ip, row[k].list)

\* C14: search_by_addr_1(ip, table) returns the rows of the table (their
\* null cells read as '') whose addrs, srcaddrs or dstaddrs list contains
\* the /32-normalized ip, in table order and nothing else; a row whose
\* prefix columns are all missing or null is never returned.
C14_SearchReturnsMatchingRows ==
    (pc = "returned" /\ call.op = "search_by_addr_1") =>
        LET ip == normalize_ip(call.ip_s)
            n == Len(tbl_df.rows)
            idx == SelectSeqIdx(n, [i \in 1..n |->
                                       RowContains(tbl_df.rows[i], ip)], 1)
        IN /\ Len(ret.val) = Len(idx)
           /\ \A j \in 1..Len(idx) : ret.val[j] = fillna(tbl_df.rows[idx[j]])

\* a policy table of two rows searched for 192.168.1.10: the row whose
\* dstaddrs holds it is returned, the row with a null srcaddrs is not
C14_Witness ==
    /\ pc = "returned" /\ call.op = "search_by_addr_1"
    /\ call.tbl = "make_firewall_policy_table"
    /\ call.ip_s = Pfx(IP_H1, NoLen)
    /\ Len(tbl_df.rows) = 2
    /\ tbl_df.rows[1].name = "p1" /\ tbl_df.rows[2].name = "p4"
    /\ IsNaN(tbl_df.rows[2], "srcaddrs")
    /\ Len(ret.val) = 1 /\ ret.val[1].name = "p1"
    /\ ~is_ip_in_addrs(call.ip_s, ret.val[1].srcaddrs.list)

\* the references of a srcaddr or dstaddr cell
RefsOf(cell) == IF "str" \in DOMAIN cell THEN {cell.str} ELSE Range(cell.list)

\* the prefixes of the address-table rows whose edit is one of the refs
RefPrefixes(df_fa, refs) ==
    UNION { Range(df_fa.rows[i].addrs.list) :
              i \in { j \in 1..Len(df_fa.rows) :
                        /\ df_fa.rows[j].edit \in refs
                        /\ ~IsNaN(df_fa.rows[j], "addrs") } }

\* l is the sorted list, without repetition, of the prefixes of the refs
SortedUnion(l, refs, df_fa) ==
    /\ \A i \in 1..(Len(l) - 1) : TextLess(Text(l[i]), Text(l[i + 1]))
    /\ Range(l) = RefPrefixes(df_fa, refs)

\* C18: in every row of a policy table, srcaddrs (dstaddrs) is the sorted
\* list without duplicates of the prefixes of the address-table rows named
\* by the policy's srcaddr (dstaddr).
C18_ResolvedSortedNoDuplicates ==
    (pc = "table" /\ call.op = "make_firewall_policy_table") =>
        \A i \in 1..Len(tbl_df.rows),
           df_fa \in {make_firewall_address_table(cnf)} :
            LET row == tbl_df.rows[i]
            IN /\ ("srcaddrs" \in DOMAIN row /\ ~IsNaN(row, "srcaddrs")) =>
                    SortedUnion(row.srcaddrs.list, RefsOf(row.srcaddr), df_fa)
               /\ ("dstaddrs" \in DOMAIN row /\ ~IsNaN(row, "dstaddrs")) =>
                    SortedUnion(row.dstaddrs.list, RefsOf(row.dstaddr), df_fa)


(***************************************************************************)
(* network.py: merging graph documents.  A file holds a document as in     *)
(* finder.py; a "mapping" document also carries its metadata, of which the *)
(* source is kept.                                                         *)
(***************************************************************************)
\* the metadata mapping of a graph document
Metadata(source) == [type |-> "metadata", source |-> source]

\* list(load_network_graph_files_itr(filepaths)): for every file that holds
\* a mapping with nodes and links, its metadata, its nodes, its links
load_network_graph_files(docs) ==
    LET Items(d) == IF d.shape = "mapping"
                    THEN <<d.metadata>> \o d.nodes \o d.links
                    ELSE <<>>
    IN Flatten([i \in 1..Len(docs) |-> Items(docs[i])] \o <<>>)

\* list({x["id"]: x for x in items}.values()): a key keeps the position of
\* its first item and the value of its last item
DictValuesById(items) ==
    LET n == Len(items)
        isFirst == [i \in 1..n |-> \A j \in 1..(i - 1) : items[j].id # items[i].id]
        firsts == SelectSeqIdx(n, isFirst, 1)
        LastOf(i) == CHOOSE j \in i..n :
                        /\ items[j].id = items[i].id
                        /\ \A k \in (j + 1)..n : items[k].id # items[i].id
    IN [k \in 1..Len(firsts) |-> items[LastOf(firsts[k])]] \o <<>>

\* _compose_nodes_itr that keeps the firewall nodes only
ComposeNodesFirewallsOnly(graph_items) ==
    LET IsNodeItem(x) == x.type = "firewall"
    IN DictValuesById(SelectSeq(graph_items, IsNodeItem))

\* list(_compose_nodes_itr(graph)), class and label left out as in MakeNode
compose_nodes(graph_items) ==
    LET IsNodeItem(x) == x.type \notin {"edge", "metadata"}
    IN DictValuesById(SelectSeq(graph_items, IsNodeItem))

\* compose_network_files(filepaths), timestamp and version left out
compose_network_files(docs) ==
    LET items == load_network_graph_files(docs)
        IsEdgeItem(x) == x.type = "edge"
        IsMetadata(x) == x.type = "metadata"
        Source(x) == x.source
    IN [shape |-> "mapping",
        metadata |-> [sources |-> SeqFilterMap(items, IsMetadata, Source)],
        nodes |-> compose_nodes(items),
        links |-> DictValuesById(SelectSeq(items, IsEdgeItem))]

(***************************************************************************)
(* State machine of the merge: one call of compose_network_files().        *)
(***************************************************************************)
MaxDocs == 3        \* files given to one merge

\* the firewall fw1 as a later configuration of it describes it
FW1B == MakeNode([host |-> "fw1"], "firewall", <<Pfx(IP_H1B, 24)>>)
FW2  == MakeNode([host |-> "fw2"], "firewall", <<Pfx(IP_H2, 24)>>)

MergeDocs ==
    { [shape |-> "mapping", metadata |-> Metadata("a.json"),
       nodes |-> <<FW1, NET1>>,
       links |-> <<make_edge(FW1.id, NET1.id, 1)>>],
      [shape |-> "mapping", metadata |-> Metadata("b.json"),
       nodes |-> <<FW1B, NET1, NET16>>,
       links |-> <<make_edge(FW1.id, NET1.id, 1),
                   make_edge(NET1.id, NET16.id, 8)>>],
      [shape |-> "mapping", metadata |-> Metadata("c.json"),
       nodes |-> <<FW2, NET2, NET16, NET1>>,
       links |-> <<make_edge(FW2.id, NET2.id, 1),
                   make_edge(NET1.id, NET16.id, 4)>>],
      [shape |-> "mapping", metadata |-> Metadata("d.json"),
       nodes |-> <<>>, links |-> <<>>],
      [shape |-> "list"],
      [shape |-> "no_links"] }

Compose ==
    /\ pc = "idle"
    /\ \E docs \in InjSeqs(MergeDocs, MaxDocs) :
         /\ call' = [op |-> "compose_network_files", files |-> docs]
         /\ ret' = [val |-> compose_network_files(docs)]
    /\ pc' = "returned"
    /\ UNCHANGED <<cnf, doc, graph, query, paths, nets, dist, tbl_df>>

InitMerge == Idle
NextMerge == Compose
SpecMerge == InitMerge /\ [][NextMerge]_vars

(***************************************************************************)
(* Properties of the merge.                                                *)
(***************************************************************************)
\* the nodes of the valid source documents, in input order
SourceNodes ==
    LET Nodes(d) == IF d.shape = "mapping" THEN d.nodes ELSE <<>>
    IN Flatten([i \in 1..Len(call.files) |-> Nodes(call.files[i])] \o <<>>)

\* the links of the valid source documents, in input order
SourceLinks ==
    LET Links(d) == IF d.shape = "mapping" THEN d.links ELSE <<>>
    IN Flatten([i \in 1..Len(call.files) |-> Links(call.files[i])] \o <<>>)

\* every id of the source items occurs exactly once in the merged items
EachIdOnce(merged, source) ==
    /\ \A i, j \in 1..Len(merged) : merged[i].id = merged[j].id => i = j
    /\ {merged[i].id : i \in 1..Len(merged)}
         = {source[i].id : i \in 1..Len(source)}

\* every merged item is the first source item with its id
FirstOccurrenceKept(merged, source) ==
    \A i \in 1..Len(merged) :
        \E j \in 1..Len(source) :
            /\ source[j] = merged[i]
            /\ \A k \in 1..(j - 1) : source[k].id # merged[i].id

\* C19: the merged nodes hold each node id of the valid source documents
\* exactly once, with the attributes (name, type, addrs) of the first
\* occurrence of the id in input order.
C19_FirstNodeWins ==
    (pc = "returned" /\ call.op = "compose_network_files") =>
        /\ EachIdOnce(ret.val.nodes, SourceNodes)
        /\ FirstOccurrenceKept(ret.val.nodes, SourceNodes)

\* C20: the merged links hold each edge id of the valid source documents
\* exactly once, and the edge kept for an id is the earliest one in input
\* order.
C20_EarliestLinkKept ==
    (pc = "returned" /\ call.op = "compose_network_files") =>
        /\ EachIdOnce(ret.val.links, SourceLinks)
        /\ FirstOccurrenceKept(ret.val.links, SourceLinks)


(***************************************************************************)
(* Properties of the graph loader and of find_net_nodes_by_ip              *)
(* (specification Spec).                                                   *)
(***************************************************************************)
\* a link of the document names a source or target that is no node's id
DanglingLink(d) ==
    \E i \in 1..Len(d.links) :
        \/ \A k \in 1..Len(d.nodes) : d.nodes[k].id # d.links[i].source
        \/ \A k \in 1..Len(d.nodes) : d.nodes[k].id # d.links[i].target

\* C21: graph-structure violations are detected at load time: a document
\* with a link whose source or target is the id of no node makes load fail,
\* and no find_paths call on a loaded graph fails because of a node without
\* id/addrs attributes (KeyError).
C21_DanglingLinkFailsAtLoad ==
    /\ (pc \in {"loaded", "found"} /\ doc.shape = "mapping"
            /\ DanglingLink(doc))
          => IsErr(graph)
    /\ pc = "found" => paths # Err("KeyError")


(***************************************************************************)
(* State machine of the node lookup: one call of find_net_nodes_by_ip and  *)
(* find_a_net_node_by_ip on a document with single- and multi-address      *)
(* nodes.                                                                  *)
(***************************************************************************)
\* a router between 10.0.0.0/8 and 192.168.1.0/24
RT1 == MakeNode([host |-> "rt1"], "router", <<Pfx(IP_10, 8), Pfx(IP_N1, 24)>>)

EncloseNodes == {FW1, NET1, NET2, NET16, RT1}

EncloseDocs ==
    { [shape |-> "mapping", nodes |-> ns, links |-> ls] :
        ns \in InjSeqs(EncloseNodes, MaxNodes),
        ls \in { <<>>, <<make_edge(NET1.id, Pfx(IP_10, 8), InfSentinel)>> } }

FindNetNodes ==
    /\ pc = "idle"
    /\ \E d \in EncloseDocs, ipa \in QueryIps :
         /\ doc' = d
         /\ graph' = load(d)
         /\ query' = [ip |-> ipa]
         /\ ret' = [nodes |-> find_net_nodes_by_ip(load(d), ipa),
                    best |-> find_a_net_node_by_ip(load(d), ipa)]
    /\ pc' = "enclosed"
    /\ UNCHANGED <<cnf, paths, nets, dist, call, tbl_df>>

InitEnclose == Idle
NextEnclose == FindNetNodes
SpecEnclose == InitEnclose /\ [][NextEnclose]_vars

\* the prefix length of the most specific addrs entry of the node that
\* contains the address
EnclosingLen(node, ipa) ==
    LET hits == { k \in 1..Len(node.addrs) :
                    is_ip_in_addrs(ipa, <<node.addrs[k]>>) }
    IN CHOOSE p \in { to_network(node.addrs[k]).len : k \in hits } :
          \A k \in hits : to_network(node.addrs[k]).len <= p

\* the nodes of the graph that enclose the address, in graph order
EnclosingNodes(g, ipa) ==
    LET Encloses(n) == /\ n.attrs # None
                       /\ \E k \in 1..Len(n.attrs.addrs) :
                             is_ip_in_addrs(ipa, <<n.attrs.addrs[k]>>)
        Attrs(n) == n.attrs
    IN SeqFilterMap(g.nodes, Encloses, Attrs)

\* C22: find_net_nodes_by_ip returns exactly the nodes with an addrs entry
\* containing the address, by descending prefix length of the enclosing
\* entry, equal lengths in graph order; find_a_net_node_by_ip returns the
\* first of them, or None when there is none.
C22_EnclosingBySpecificity ==
    pc = "enclosed" =>
        CHOOSE ok \in
          { /\ ret.nodes =
                 [i \in 1..Len(found) |->
                     found[SortedIdx([k \in 1..Len(found) |->
                                        EnclosingLen(found[k], query.ip)],
                                     TRUE)[i]]]
            /\ ret.best = IF ret.nodes = <<>> THEN None ELSE ret.nodes[1] :
            found \in {EnclosingNodes(graph, query.ip)} } : TRUE


(***************************************************************************)
(* Properties of the node_type filter of find_paths (specification Spec).  *)
(***************************************************************************)
\* the ids of a returned path
PathIds(p) == [k \in 1..Len(p) |-> p[k].id] \o <<>>

\* the type of the node of the graph with that id
TypeOf(g, id) ==
    (CHOOSE n \in Range(g.nodes) : n.id = id).attrs.type

\* a shortest path, as ids in path order, filtered down to the nodes of type t
TypeFiltered(g, ns, t) ==
    LET OfType(id) == TypeOf(g, id) = t
    IN SeqFilterMap(ns, OfType, Ident)

\* every node of every returned path has the type t
OnlyOfType(ps, t) ==
    \A i \in 1..Len(ps) : \A k \in 1..Len(ps[i]) : ps[i][k].type = t

\* no two returned paths have the same ordered tuple of node ids
NoTwoAlike(ps) ==
    \A i \in 1..Len(ps), j \in 1..Len(ps) :
        i # j => PathIds(ps[i]) # PathIds(ps[j])

\* every returned path is a shortest path filtered to the type t, in path
\* order, and every shortest path is represented
FilteredInPathOrder(g, ps, sps, t) ==
    /\ \A i \in 1..Len(ps) :
          \E ns \in sps : PathIds(ps[i]) = TypeFiltered(g, ns, t)
    /\ \A ns \in sps :
          \E i \in 1..Len(ps) : PathIds(ps[i]) = TypeFiltered(g, ns, t)

\* one returned path per shortest path, with all the nodes of that path
Unfiltered(ps, sps) ==
    /\ Len(ps) = Cardinality(sps)
    /\ \A ns \in sps : \E i \in 1..Len(ps) : Range(PathIds(ps[i])) = Range(ns)

\* C23: with a non-wildcard node_type every returned path holds only nodes
\* of that type, in path order, and no two returned paths have the same
\* tuple of node ids; with node_type unset or the wildcard the paths are
\* returned unfiltered.
C23_FilteredByTypeUnique ==
    (/\ pc = "found" /\ Returned
     /\ SrcNode # None /\ DstNode # None /\ SrcNode # DstNode) =>
        \A sps \in {all_shortest_paths(graph, SrcNode.id, DstNode.id)} :
            IF query.node_type \in {NoType, "any"}
            THEN Unfiltered(paths.val, sps)
            ELSE /\ OnlyOfType(paths.val, query.node_type)
                 /\ NoTwoAlike(paths.val)
                 /\ FilteredInPathOrder(graph, paths.val, sps,
                                        query.node_type)


(***************************************************************************)
(* The rules of distance() (specification SpecDist).                       *)
(***************************************************************************)
\* a valid prefix in address/prefixlen form
IsCidr(s) == s.len # NoLen /\ IsCanonical(s)

\* the first p bits of the two addresses are the same
SameLeadingBits(a, b, p) ==
    \A i \in 1..4 :
        a[i] \div Pow2(8 - OctetBits(p, i)) = b[i] \div Pow2(8 - OctetBits(p, i))

\* the range of the prefix x lies within the range of the prefix y
Within(x, y) == y.len <= x.len /\ SameLeadingBits(x.ip, y.ip, y.len)

\* the prefix lengths >= 1 of the common supernets of x and y
CommonLens(x, y) ==
    { p \in 1..Min(x.len, y.len) : SameLeadingBits(x.ip, y.ip, p) }

\* the ordered rules of the distance between two prefixes
DistanceByRules(x, y) ==
    IF x = y THEN 0
    ELSE IF (x.len = AddrBits /\ Within(x, y))
              \/ (y.len = AddrBits /\ Within(y, x)) THEN 1
    ELSE IF Within(x, y) \/ Within(y, x) THEN Abs(x.len - y.len)
    ELSE IF CommonLens(x, y) = {} THEN INF
    ELSE x.len + y.len
           - 2 * (CHOOSE p \in CommonLens(x, y) :
                     \A q \in CommonLens(x, y) : q <= p)

\* C24: for valid prefixes A, B in address/prefixlen form distance follows
\* the ordered rules: 0 if equal, 1 if one is a host contained in the other,
\* the difference of the prefix lengths if one is a subset of the other,
\* else len(A) + len(B) - 2 * len(smallest common supernet), +infinity when
\* there is no common supernet of prefix length >= 1; never negative.
C24_DistanceFollowsRules ==
    (pc = "distance" /\ IsCidr(nets[1]) /\ IsCidr(nets[2])) =>
        /\ dist = [val |-> DistanceByRules(nets[1], nets[2])]
        /\ dist.val >= 0

\* two networks without a common supernet were measured
C24_Witness ==
    /\ pc = "distance"
    /\ nets = <<Pfx(IP_N1, 24), Pfx(IP_10, 8)>>
    /\ dist = [val |-> INF]


(***************************************************************************)
(* State machine of the supernet search: one call of supernet_of_networks  *)
(* or of find_nearest_network.                                             *)
(***************************************************************************)
MaxNets == 2        \* networks given to supernet_of_networks, candidates

\* network and host address strings, one bare and one with host bits set
SuperInputs ==
    { Pfx(IP_N1, 24), Pfx(IP_N2, 24), Pfx(IP_192, 16), Pfx(IP_H1, 32),
      Pfx(IP_H2, NoLen), Pfx(IP_10, 8), Pfx(IP_10_1, 16), Pfx(IP_ANY, 0),
      Pfx(IP_H1B, 24) }

MaxPrefixes == {0, 1, 16, 17, NET_MAX_PREFIX, AddrBits}

\* what a call find_nearest_network(ipa, nets) produces
NearestOutcome(ipa, ns) ==
    IF \E i \in 1..Len(ns) : distance_raises(ipa, ns[i])
    THEN Err("ValueError")
    ELSE IF ns = <<>> THEN Err("IndexError")
    ELSE [val |-> find_nearest_network(ipa, ns)]

SupernetOf ==
    /\ pc = "idle"
    /\ \E ns \in InjSeqs(SuperInputs, MaxNets), mp \in MaxPrefixes :
         /\ nets' = ns
         /\ call' = [op |-> "supernet_of_networks", max_prefix |-> mp]
         /\ ret' = supernet_of_networks(ns, mp)
    /\ pc' = "returned"
    /\ UNCHANGED <<cnf, doc, graph, query, paths, dist, tbl_df>>

Nearest ==
    /\ pc = "idle"
    /\ \E ipa \in SuperInputs, ns \in InjSeqs(SuperInputs, MaxNets) :
         /\ nets' = ns
         /\ call' = [op |-> "find_nearest_network", ipa |-> ipa]
         /\ ret' = NearestOutcome(ipa, ns)
    /\ pc' = "returned"
    /\ UNCHANGED <<cnf, doc, graph, query, paths, dist, tbl_df>>

InitSuper == Idle
NextSuper == SupernetOf \/ Nearest
SpecSuper == InitSuper /\ [][NextSuper]_vars

\* the prefix lengths p, 1 <= p <= max_prefix and p <= every input's prefix
\* length, at which one network contains every input
ContainingLens(ns, max_prefix) ==
    { p \in 1..max_prefix :
        \A i \in 1..Len(ns) :
            /\ p <= StrLen(ns[i])
            /\ SameLeadingBits(ns[i].ip, ns[1].ip, p) }

\* the most specific network containing every input, None without one
MostSpecificSupernet(ns, max_prefix) ==
    IF ns = <<>> \/ ContainingLens(ns, max_prefix) = {} THEN None
    ELSE Supernet(Pfx(ns[1].ip, AddrBits),
                  CHOOSE p \in ContainingLens(ns, max_prefix) :
                     \A q \in ContainingLens(ns, max_prefix) : q <= p)

\* C25: supernet_of_networks returns the most specific network of prefix
\* length 1..max_prefix, not longer than any input's, that contains every
\* input; None when there is none or no input; never a /0 network; the
\* result does not depend on the order of the inputs.
C25_SmallestCommonSupernet ==
    (/\ pc = "returned" /\ call.op = "supernet_of_networks"
     /\ \A i \in 1..Len(nets) : IsCanonical(nets[i])) =>
        /\ ret = MostSpecificSupernet(nets, call.max_prefix)
        /\ ret # None => ret.len >= 1
        /\ \A ms \in Perms(Range(nets)) :
              supernet_of_networks(ms, call.max_prefix) = ret

\* two /24 networks were summarized under a cap of 17 bits
C25_Witness ==
    /\ pc = "returned" /\ call.op = "supernet_of_networks"
    /\ nets = <<Pfx(IP_N2, 24), Pfx(IP_N1, 24)>>
    /\ call.max_prefix = 17
    /\ ret = Pfx(IP_192, 17)

\* C26: for a non-empty candidate list find_nearest_network returns a
\* candidate of minimal distance to the target, and of those the one that
\* comes first in the input order.
C26_NearestIsFirstMinimal ==
    (/\ pc = "returned" /\ call.op = "find_nearest_network"
     /\ nets # <<>> /\ ~IsErr(ret)) =>
        \E k \in 1..Len(nets) :
            /\ ret.val = nets[k]
            /\ \A j \in 1..Len(nets) :
                  distance(call.ipa, nets[k]) <= distance(call.ipa, nets[j])
            /\ \A j \in 1..(k - 1) :
                  distance(call.ipa, nets[j]) > distance(call.ipa, nets[k])

\* two candidates at the same distance: the first one was returned
C26_Witness ==
    /\ pc = "returned" /\ call.op = "find_nearest_network"
    /\ call.ipa = Pfx(IP_192, 16)
    /\ nets = <<Pfx(IP_N2, 24), Pfx(IP_N1, 24)>>
    /\ ret = [val |-> Pfx(IP_N2, 24)]


(***************************************************************************)
(* Properties of the collected document (specification SpecBuild).         *)
(***************************************************************************)
\* a document was collected from the config tree cnf
Collected == pc \in {"collected", "loaded"} /\ ~IsErr(doc)

\* C27: every link of a collected document has a finite, non-negative
\* distance: 1 on an edge from the firewall to an interface network; on an
\* edge of an address-object network the distance between that network and
\* its nearest interface network, 64 in place of +infinity, and the edge
\* joins the network to that nearest interface network.
C27_LinkDistances ==
    Collected =>
        \A inets \in {InetsOf(cnf)} :
          \A i \in 1..Len(doc.links) :
            \A l \in {doc.links[i]} :
              /\ l.distance >= 0 /\ l.distance < INF
              /\ IF l.source = hostname_from_configs(cnf)
                 THEN l.distance = 1 /\ l.target \in Range(inets)
                 ELSE /\ l.source = find_nearest_network(l.target, inets)
                      /\ l.distance =
                            IF distance(l.target, l.source) = INF
                            THEN InfSentinel
                            ELSE distance(l.target, l.source)

\* a document with an interface edge, an edge at a finite distance above 1
\* and an edge at the sentinel distance
C27_Witness ==
    /\ Collected
    /\ \E i \in 1..Len(doc.links) : doc.links[i].distance = 1
    /\ \E i \in 1..Len(doc.links) : doc.links[i].distance = InfSentinel
    /\ \E i \in 1..Len(doc.links) :
          doc.links[i].distance > 1 /\ doc.links[i].distance < InfSentinel


(***************************************************************************)
(* State machine of the placement of address objects: config trees with    *)
(* host addresses inside and outside of the interface networks.            *)
(***************************************************************************)
IP_SRV == <<10, 1, 0, 5>>

PlaceIfEdits ==
    { [edit |-> "port1", ip |-> <<IP_H1, 24>>],
      [edit |-> "port3", ip |-> <<IP_10_IF, 8>>],
      [edit |-> "port5", ip |-> <<IP_H2, 32>>] }

PlaceFaEdits ==
    << [edit |-> "srv", subnet |-> <<IP_SRV, 32>>],
       [edit |-> "lab", subnet |-> <<IP_10_1, 16>>],
       [edit |-> "host1", subnet |-> <<IP_H1B, 32>>],
       [edit |-> "site", subnet |-> <<IP_192, 16>>],
       [edit |-> "all", subnet |-> <<IP_ANY, 32>>] >>

PlaceTrees ==
    { [configs |-> <<[config |-> "system global", hostname |-> "FW1"],
                     [config |-> "system interface", edits |-> ifs],
                     [config |-> "firewall address", edits |-> fas]>>] :
        ifs \in InjSeqs(PlaceIfEdits, MaxIfs),
        fas \in SubSeqs(PlaceFaEdits, MaxFas) }

CollectPlaced ==
    /\ pc = "idle"
    /\ \E c \in PlaceTrees :
         /\ cnf' = c
         /\ IF config_file_raises(c) \/ list_firewall_addrs_raises(c)
            THEN doc' = Err("ValueError")
            ELSE \E fas \in Perms(list_firewall_addrs(c)) :
                   IF Step4Raises(fas, InetsOf(c), NET_MAX_PREFIX)
                   THEN doc' = Err("ValueError")
                   ELSE \E snets \in
                            Perms(Step4Nets(fas, InetsOf(c), NET_MAX_PREFIX)) :
                          doc' = collect_networks_from_config_file(c, fas, snets)
    /\ pc' = "collected"
    /\ UNCHANGED <<graph, query, paths, nets, dist, call, ret, tbl_df>>

InitPlace == Idle
NextPlace == CollectPlaced
SpecPlace == InitPlace /\ [][NextPlace]_vars

\* the address-object prefixes placed in step 3: network-type, not an
\* interface network, not 0.0.0.0/32
PlacedInStep3(fas, inets) ==
    { a \in fas : /\ is_network_address(a)
                  /\ a \notin Range(inets)
                  /\ a # Pfx(IP_ANY, AddrBits) }

\* the network nodes of the document that neither an interface nor step 3
\* accounts for
Step4Nodes(d, fas, inets) ==
    { d.nodes[i].id : i \in { k \in 1..Len(d.nodes) :
                                /\ d.nodes[k].type = "network"
                                /\ d.nodes[k].id \notin Range(inets)
                                /\ d.nodes[k].id
                                      \notin PlacedInStep3(fas, inets) } }

\* C28: an address-object prefix contained in some interface network is not
\* summarized in step 4 and yields no node: every node of step 4 is the
\* supernet, at the prefix cap, of a prefix that is not yet placed and is
\* covered by no interface network.
C28_CoveredNotSummarized ==
    Collected =>
        \A inets \in {InetsOf(cnf)}, fas \in {list_firewall_addrs(cnf)} :
            \A id \in Step4Nodes(doc, fas, inets) :
                \E a \in fas :
                    /\ id = Supernet(IpNetwork(a), NET_MAX_PREFIX)
                    /\ a \notin PlacedInStep3(fas, inets)
                    /\ a \notin Range(inets)
                    /\ ~is_ip_in_addrs(a, inets)


\* what the placement of 0.0.0.0/32 would put into a document: the prefix
\* itself or its supernet at the prefix cap
DerivedFromAny ==
    { Pfx(IP_ANY, AddrBits),
      Supernet(Pfx(IP_ANY, AddrBits), NET_MAX_PREFIX) }

\* C29: 0.0.0.0/32 is excluded from placement: a config tree whose firewall
\* addresses include it yields no network node and no edge derived from it,
\* neither directly (step 3) nor through summarization (step 4).
C29_AnyAddressNotPlaced ==
    (Collected /\ Pfx(IP_ANY, AddrBits) \in list_firewall_addrs(cnf)) =>
        /\ \A i \in 1..Len(doc.nodes) : doc.nodes[i].id \notin DerivedFromAny
        /\ \A i \in 1..Len(doc.links) :
              /\ doc.links[i].source \notin DerivedFromAny
              /\ doc.links[i].target \notin DerivedFromAny


(***************************************************************************)
(* State machine of build and merge: config trees of one or more devices   *)
(* are collected into documents, the documents are merged.                 *)
(***************************************************************************)
MaxDevices == 2     \* config files collected and merged together

IntegFaEdits ==
    << [edit |-> "srv", subnet |-> <<IP_SRV, 32>>],
       [edit |-> "site", subnet |-> <<IP_192, 16>>] >>

IntegTrees ==
    { [configs |-> <<[config |-> "system global", hostname |-> h],
                     [config |-> "system interface", edits |-> <<if>>],
                     [config |-> "firewall address", edits |-> fas]>>] :
        h \in {"FW1", "fw2"},
        if \in { [edit |-> "port1", ip |-> <<IP_H1, 24>>],
                 [edit |-> "port3", ip |-> <<IP_10_IF, 8>>] },
        fas \in SubSeqs(IntegFaEdits, MaxFas) }

\* the documents collect_networks_from_config_file can produce for the tree,
\* one per iteration order of its sets, with the metadata of the file
BuiltDocs(c) ==
    { [shape |-> "mapping",
       metadata |-> Metadata(hostname_from_configs(c)),
       nodes |-> d.nodes, links |-> d.links] :
      d \in UNION { { collect_networks_from_config_file(c, fas, snets) :
                        snets \in Perms(Step4Nets(fas, InetsOf(c),
                                                  NET_MAX_PREFIX)) } :
                    fas \in Perms(list_firewall_addrs(c)) } }

\* collect_networks_from_config_files(filepaths)
CollectAll ==
    /\ pc = "idle"
    /\ \E n \in 1..MaxDevices : \E cs \in [1..n -> IntegTrees] :
         /\ cnf' = cs
         /\ \E built \in {[i \in 1..n |-> BuiltDocs(cs[i])]} :
              \E docs \in [1..n -> UNION Range(built)] :
                 /\ \A i \in 1..n : docs[i] \in built[i]
                 /\ call' = [op |-> "collect_networks_from_config_files",
                             files |-> docs]
    /\ pc' = "collected"
    /\ UNCHANGED <<doc, graph, query, paths, nets, dist, ret, tbl_df>>

ComposeCollected ==
    /\ pc = "collected"
    /\ ret' = [val |-> compose_network_files(call.files)]
    /\ pc' = "returned"
    /\ UNCHANGED <<cnf, doc, graph, query, paths, nets, dist, call, tbl_df>>

InitInteg == Idle
NextInteg == CollectAll \/ ComposeCollected
SpecInteg == InitInteg /\ [][NextInteg]_vars

\* the ids of the nodes of the document that have the type t
IdsOfType(d, t) ==
    { d.nodes[i].id : i \in { k \in 1..Len(d.nodes) : d.nodes[k].type = t } }

\* the document has a link between a and b
Linked(d, a, b) ==
    \E i \in 1..Len(d.links) :
        \/ d.links[i].source = a /\ d.links[i].target = b
        \/ d.links[i].source = b /\ d.links[i].target = a

\* every link joins two nodes of the document, and every network node is
\* linked to a firewall node directly or through one interface network node
ReferentialIntegrity(d) ==
    /\ \A i \in 1..Len(d.links) :
          \A ids \in {{ d.nodes[k].id : k \in 1..Len(d.nodes) }} :
              d.links[i].source \in ids /\ d.links[i].target \in ids
    /\ \A fws \in {IdsOfType(d, "firewall")} :
          \A n \in IdsOfType(d, "network") :
              \/ \E fw \in fws : Linked(d, fw, n)
              \/ \E m \in IdsOfType(d, "network") :
                    /\ Linked(d, m, n)
                    /\ \E fw \in fws : Linked(d, fw, m)

\* C30: in every collected document and in every document merged from
\* collected documents, source and target of every link are ids of nodes of
\* that document, and every network node is linked to a firewall node,
\* directly or through one interface network node.
C30_ReferentialIntegrity ==
    /\ pc \in {"collected", "returned"} =>
          \A i \in 1..Len(call.files) : ReferentialIntegrity(call.files[i])
    /\ pc = "returned" => ReferentialIntegrity(ret.val)

\* the documents of two devices, each with an address-object network behind
\* its interface network, were merged
C30_Witness ==
    /\ pc = "returned"
    /\ Len(call.files) = 2
    /\ Cardinality(IdsOfType(ret.val, "firewall")) = 2
    /\ Cardinality(IdsOfType(ret.val, "network")) >= 3
    /\ Len(ret.val.links) >= 4

====
